---- MODULE Spec2Model ----
(***************************************************************************)
(* A model of the COVID-website data pipeline: the preparation of the     *)
(* CSSE cases and deaths series (covid_cases.py, covid_deaths.py), the    *)
(* continent breakdown, the US-state series (covid_usa.py) and the        *)
(* summary tables (covid_tables.py), run in the order of main.get_data /  *)
(* main.main.                                                              *)
(*                                                                         *)
(* A pandas DataFrame is a sequence of row records: the row order is part *)
(* of the value, as it is in pandas.  A float column is a column of exact *)
(* rationals [n, d] in lowest terms, with 0/0 standing for NaN and 1/0,   *)
(* -1/0 for the infinities; the rounding error of binary floating point   *)
(* is not modelled.                                                        *)
(***************************************************************************)
EXTENDS Integers, Sequences, FiniteSets, TLC

\* ------------------------------------------------------------------ bounds

\* Largest number a cell of a short table holds (tables of InitPrepare).
MaxVal == 1

\* Largest day-to-day increase of the free row of a long table (tables of
\* InitRolling).
MaxDelta == 1

\* Largest growth of a free row of a full table from one date column to the
\* next (tables of Init).
MaxGrowth == 1

\* ------------------------------------------------------- program constants

window == 7
min_periods == 1
per_million == 1000000

\* ---------------------------------------------------------------- rationals

RECURSIVE GCD(_, _)
GCD(a, b) == IF b = 0 THEN a ELSE GCD(b, a % b)

Abs(i) == IF i < 0 THEN -i ELSE i

\* numpy.nan
NaN == [n |-> 0, d |-> 0]

\* numpy.inf and -numpy.inf
inf == [n |-> 1, d |-> 0]

neg_inf == [n |-> -1, d |-> 0]

isna(x) == x.d = 0 /\ x.n = 0

isinf(x) == x.d = 0 /\ x.n # 0

Sign(i) == IF i > 0 THEN 1 ELSE IF i < 0 THEN -1 ELSE 0

\* n / d for d > 0, in lowest terms.
Rat(n, d) ==
    LET g == GCD(Abs(n), d)
    IN  [n |-> n \div g, d |-> d \div g]

RInt(i) == [n |-> i, d |-> 1]

\* x / y of two float cells, as numpy divides: NaN propagates, 0 / 0 is NaN,
\* and any other number over 0 is an infinity.
truediv(x, y) ==
    IF isna(x) \/ isna(y) THEN NaN
    ELSE IF isinf(x) THEN (IF isinf(y) THEN NaN
                           ELSE [n |-> x.n * (IF y.n < 0 THEN -1 ELSE 1), d |-> 0])
    ELSE IF isinf(y) THEN RInt(0)
    ELSE IF y.n = 0 THEN [n |-> Sign(x.n), d |-> 0]
    ELSE IF y.n > 0 THEN Rat(x.n * y.d, x.d * y.n)
    ELSE Rat(-(x.n * y.d), x.d * (-y.n))

\* x * k for an integer constant k.
mul(x, k) ==
    IF isna(x) THEN NaN
    ELSE IF isinf(x) THEN [n |-> Sign(x.n * k), d |-> 0]
    ELSE Rat(x.n * k, x.d)

add(x, y) ==
    IF isna(x) \/ isna(y) THEN NaN
    ELSE IF isinf(x) THEN (IF isinf(y) /\ y.n # x.n THEN NaN ELSE x)
    ELSE IF isinf(y) THEN y
    ELSE Rat(x.n * y.d + y.n * x.d, x.d * y.d)

\* x < y; a comparison with NaN is False.
lt(x, y) ==
    /\ ~isna(x) /\ ~isna(y)
    /\ IF isinf(x) /\ isinf(y) THEN x.n < y.n ELSE x.n * y.d < y.n * x.d

\* round(x, 3): the nearest multiple of 1/1000, a tie going to the even one.
round(x) ==
    IF x.d = 0 THEN x
    ELSE LET s == x.n * 1000
             q == s \div x.d
             r == s - q * x.d
         IN  IF 2 * r > x.d \/ (2 * r = x.d /\ q % 2 = 1)
             THEN Rat(q + 1, 1000) ELSE Rat(q, 1000)

\* ------------------------------------------------------------------- dates

\* A date column label of the raw table, 'm/d/yy', as strptime reads it.
Label(m, d, y) == [m |-> m, d |-> d, y |-> y]

DaysInMonth(m, y) ==
    IF m = 2 THEN (IF y % 4 = 0 THEN 29 ELSE 28)
    ELSE IF m \in {4, 6, 9, 11} THEN 30 ELSE 31

RECURSIVE DaysBeforeMonth(_, _)
DaysBeforeMonth(m, y) ==
    IF m = 1 THEN 0 ELSE DaysBeforeMonth(m - 1, y) + DaysInMonth(m - 1, y)

\* Every label taken for a date, whatever it holds.
parses_all(l) == TRUE

\* Whether a label is a date under format '%m/%d/%y': a month, a day of that
\* month and a year of two digits.
parses(l) == l.m \in 1..12 /\ l.d \in 1..DaysInMonth(l.m, l.y) /\ l.y \in 0..99

\* The Timestamp of a label, as the number of days since 1999-12-31
\* (%y in 0..68 is the year 2000 + y, %y in 69..99 the year 1900 + y).
to_datetime(l) ==
    LET y == IF l.y <= 68 THEN l.y ELSE l.y - 100
    IN  365 * y + ((y + 3) \div 4) + DaysBeforeMonth(l.m, l.y) + l.d

\* ----------------------------------------------------------- display strings

\* The label of a Timestamp: the year, month and day of a day number.
from_datetime(t) ==
    LET before(y) == 365 * y + ((y + 3) \div 4)
        y == CHOOSE v \in ((t \div 366) - 1)..(t \div 365) :
                 v >= 0 /\ before(v) < t /\ t <= before(v + 1)
        r == t - before(y)
        m == CHOOSE v \in 1..12 :
                 /\ DaysBeforeMonth(v, y) < r
                 /\ r <= DaysBeforeMonth(v, y) + DaysInMonth(v, y)
    IN  Label(m, r - DaysBeforeMonth(m, y), y)

\* '%b' of a month.
month_abbr ==
    <<"Jan", "Feb", "Mar", "Apr", "May", "Jun", "Jul", "Aug", "Sep", "Oct",
      "Nov", "Dec">>

\* k in two digits, and in three.
two_digits(k) == IF k < 10 THEN "0" \o ToString(k) ELSE ToString(k)

three_digits(k) == IF k < 100 THEN "0" \o two_digits(k) ELSE ToString(k)

\* x.strftime('%b %d, %Y')
strftime(t) ==
    LET l == from_datetime(t)
    IN  month_abbr[l.m] \o " " \o two_digits(l.d) \o ", " \o ToString(2000 + l.y)

\* A natural number with a comma before every group of three digits.
RECURSIVE thousands(_)
thousands(i) ==
    IF i < 1000 THEN ToString(i)
    ELSE thousands(i \div 1000) \o "," \o three_digits(i % 1000)

\* |x| rounded to the nearest multiple of 1 / scale, a tie of the exact value
\* going to the even multiple: the whole part, and the rest in units of
\* 1 / scale.
round_units(x, scale) ==
    LET w  == Abs(x.n) \div x.d
        f  == Abs(x.n) % x.d
        q  == (f * scale) \div x.d
        r  == f * scale - q * x.d
        u  == IF 2 * r > x.d \/ (2 * r = x.d /\ q % 2 = 1) THEN q + 1 ELSE q
    IN  IF u = scale THEN [whole |-> w + 1, part |-> 0]
        ELSE [whole |-> w, part |-> u]

\* f'{x:,.2f}' as it is, the decimals never cut off.
str_2f_uncut(x) ==
    IF isna(x) THEN "nan"
    ELSE IF isinf(x) THEN (IF x.n < 0 THEN "-inf" ELSE "inf")
    ELSE LET h == round_units(x, 100)
         IN  (IF x.n < 0 THEN "-" ELSE "") \o thousands(h.whole)
                 \o "." \o two_digits(h.part)

\* f'{x:,.2f}' with a trailing '.00' cut off.
str_2f(x) ==
    IF isna(x) THEN "nan"
    ELSE IF isinf(x) THEN (IF x.n < 0 THEN "-inf" ELSE "inf")
    ELSE LET h        == round_units(x, 100)
             whole    == (IF x.n < 0 THEN "-" ELSE "") \o thousands(h.whole)
             decimals == two_digits(h.part)
         IN  IF decimals = "00" THEN whole ELSE whole \o "." \o decimals

\* "{:,}".format(round(x, 2)) with a trailing '.0' cut off: the shortest
\* decimals of the rounded number.
str_round_2(x) ==
    IF isna(x) THEN "nan"
    ELSE IF isinf(x) THEN (IF x.n < 0 THEN "-inf" ELSE "inf")
    ELSE LET h     == round_units(x, 100)
             whole == (IF x.n < 0 THEN "-" ELSE "") \o thousands(h.whole)
         IN  IF h.part = 0 THEN whole
             ELSE IF h.part % 10 = 0 THEN whole \o "." \o ToString(h.part \div 10)
             ELSE whole \o "." \o two_digits(h.part)

\* --------------------------------------------------------------- sequences

\* A sequence written as a function, evaluated once into a tuple.
Tuple(f) == f \o <<>>

\* ---------------------------------------------------------------- entities

\* The order of Python strings on those names (pandas sorts group keys by it).
NameRank ==
    ("Australia" :> 1) @@ ("Austria" :> 2) @@ ("Belgium" :> 3)
        @@ ("Canada" :> 4) @@ ("Denmark" :> 5) @@ ("Diamond Princess" :> 6)
        @@ ("Finland" :> 7) @@ ("France" :> 8) @@ ("Germany" :> 9)
        @@ ("Greece" :> 10) @@ ("Holy See" :> 11) @@ ("Ireland" :> 12)
        @@ ("Italy" :> 13) @@ ("Japan" :> 14) @@ ("Kosovo" :> 15)
        @@ ("MS Zaandam" :> 16) @@ ("Netherlands" :> 17)
        @@ ("New Zealand" :> 18) @@ ("Norway" :> 19) @@ ("Poland" :> 20)
        @@ ("Portugal" :> 21) @@ ("Spain" :> 22) @@ ("Sweden" :> 23)
        @@ ("Switzerland" :> 24) @@ ("US" :> 25) @@ ("United Kingdom" :> 26)

\* The cells of the population column that hold text instead of a number:
\* '' (the reference dataset has no figure) and 'no match'.
empty_cell == [n |-> 0, d |-> -1]

no_match_cell == [n |-> 0, d |-> -2]

istext(x) == x.d < 0

\* countre's answer for a name it cannot match: 'no match' in every field.
no_match ==
    [iso3 |-> "no match", population |-> no_match_cell, OECD |-> "no match",
     EU_EEA |-> "no match", continent |-> "no match", flag |-> "no match",
     latitude |-> "no match", longitude |-> "no match"]

\* The reference dataset behind countre.country_info: one record of the eight
\* requested metrics per name; a field the dataset lacks is the empty string
\* (a population for one name, the coordinates for another).
reference(name) ==
    CASE name = "Australia" ->
           [iso3 |-> "AUS", population |-> RInt(25000), OECD |-> "True",
            EU_EEA |-> "False", continent |-> "Oceania", flag |-> "AU",
            latitude |-> "-25", longitude |-> "133"]
      [] name = "Belgium" ->
           [iso3 |-> "BEL", population |-> RInt(10000), OECD |-> "True",
            EU_EEA |-> "True", continent |-> "Europe", flag |-> "BE",
            latitude |-> "50", longitude |-> "4"]
      [] name = "Sweden" ->
           [iso3 |-> "SWE", population |-> RInt(8000), OECD |-> "True",
            EU_EEA |-> "True", continent |-> "Europe", flag |-> "SE",
            latitude |-> "60", longitude |-> "18"]
      [] name = "Austria" ->
           [iso3 |-> "AUT", population |-> RInt(9000), OECD |-> "True",
            EU_EEA |-> "True", continent |-> "Europe", flag |-> "AT",
            latitude |-> "47", longitude |-> "14"]
      [] name = "Canada" ->
           [iso3 |-> "CAN", population |-> RInt(38000), OECD |-> "True",
            EU_EEA |-> "False", continent |-> "North America", flag |-> "CA",
            latitude |-> "56", longitude |-> "-106"]
      [] name = "Denmark" ->
           [iso3 |-> "DNK", population |-> RInt(6000), OECD |-> "True",
            EU_EEA |-> "True", continent |-> "Europe", flag |-> "DK",
            latitude |-> "56", longitude |-> "9"]
      [] name = "Finland" ->
           [iso3 |-> "FIN", population |-> RInt(5000), OECD |-> "True",
            EU_EEA |-> "True", continent |-> "Europe", flag |-> "FI",
            latitude |-> "62", longitude |-> "26"]
      [] name = "France" ->
           [iso3 |-> "FRA", population |-> RInt(67000), OECD |-> "True",
            EU_EEA |-> "True", continent |-> "Europe", flag |-> "FR",
            latitude |-> "46", longitude |-> "2"]
      [] name = "Germany" ->
           [iso3 |-> "DEU", population |-> RInt(83000), OECD |-> "True",
            EU_EEA |-> "True", continent |-> "Europe", flag |-> "DE",
            latitude |-> "51", longitude |-> "10"]
      [] name = "Italy" ->
           [iso3 |-> "ITA", population |-> RInt(60000), OECD |-> "True",
            EU_EEA |-> "True", continent |-> "Europe", flag |-> "IT",
            latitude |-> "42", longitude |-> "13"]
      [] name = "Japan" ->
           [iso3 |-> "JPN", population |-> RInt(126000), OECD |-> "True",
            EU_EEA |-> "False", continent |-> "Asia", flag |-> "JP",
            latitude |-> "36", longitude |-> "138"]
      [] name = "Norway" ->
           [iso3 |-> "NOR", population |-> RInt(5000), OECD |-> "True",
            EU_EEA |-> "True", continent |-> "Europe", flag |-> "NO",
            latitude |-> "60", longitude |-> "8"]
      [] name = "Greece" ->
           [iso3 |-> "GRC", population |-> RInt(11000), OECD |-> "True",
            EU_EEA |-> "True", continent |-> "Europe", flag |-> "GR",
            latitude |-> "39", longitude |-> "22"]
      [] name = "Ireland" ->
           [iso3 |-> "IRL", population |-> RInt(5000), OECD |-> "True",
            EU_EEA |-> "True", continent |-> "Europe", flag |-> "IE",
            latitude |-> "53", longitude |-> "-8"]
      [] name = "Netherlands" ->
           [iso3 |-> "NLD", population |-> RInt(17000), OECD |-> "True",
            EU_EEA |-> "True", continent |-> "Europe", flag |-> "NL",
            latitude |-> "52", longitude |-> "5"]
      [] name = "New Zealand" ->
           [iso3 |-> "NZL", population |-> RInt(5000), OECD |-> "True",
            EU_EEA |-> "False", continent |-> "Oceania", flag |-> "NZ",
            latitude |-> "-41", longitude |-> "174"]
      [] name = "Poland" ->
           [iso3 |-> "POL", population |-> RInt(38000), OECD |-> "True",
            EU_EEA |-> "True", continent |-> "Europe", flag |-> "PL",
            latitude |-> "52", longitude |-> "19"]
      [] name = "Portugal" ->
           [iso3 |-> "PRT", population |-> RInt(10000), OECD |-> "True",
            EU_EEA |-> "True", continent |-> "Europe", flag |-> "PT",
            latitude |-> "39", longitude |-> "-8"]
      [] name = "Spain" ->
           [iso3 |-> "ESP", population |-> RInt(47000), OECD |-> "True",
            EU_EEA |-> "True", continent |-> "Europe", flag |-> "ES",
            latitude |-> "40", longitude |-> "-4"]
      [] name = "Switzerland" ->
           [iso3 |-> "CHE", population |-> RInt(9000), OECD |-> "True",
            EU_EEA |-> "False", continent |-> "Europe", flag |-> "CH",
            latitude |-> "47", longitude |-> "8"]
      [] name = "US" ->
           [iso3 |-> "USA", population |-> RInt(331000), OECD |-> "True",
            EU_EEA |-> "False", continent |-> "North America", flag |-> "US",
            latitude |-> "38", longitude |-> "-97"]
      [] name = "United Kingdom" ->
           [iso3 |-> "GBR", population |-> RInt(67000), OECD |-> "True",
            EU_EEA |-> "False", continent |-> "Europe", flag |-> "GB",
            latitude |-> "55", longitude |-> "-3"]
      [] name = "Holy See" ->
           [iso3 |-> "VAT", population |-> RInt(1), OECD |-> "False",
            EU_EEA |-> "False", continent |-> "Europe", flag |-> "VA",
            latitude |-> "", longitude |-> ""]
      [] name = "Kosovo" ->
           [iso3 |-> "XKX", population |-> empty_cell, OECD |-> "False",
            EU_EEA |-> "False", continent |-> "Europe", flag |-> "XK",
            latitude |-> "42", longitude |-> "21"]
      [] OTHER -> no_match

\* The metrics of the names given, in the opposite order.
country_info_reversed(country_list) ==
    Tuple([i \in 1..Len(country_list) |->
        reference(country_list[Len(country_list) + 1 - i])])

\* country_info(countries, metrics): the metrics of each name, in the order of
\* the names given.
country_info(country_list) ==
    Tuple([i \in 1..Len(country_list) |-> reference(country_list[i])])

\* ------------------------------------------------------ DataFrame operations

RECURSIVE SumSeq(_)
SumSeq(s) == IF s = <<>> THEN 0 ELSE Head(s) + SumSeq(Tail(s))

\* The sum of f over the members of S.
RECURSIVE SumOver(_, _)
SumOver(f, S) ==
    IF S = {} THEN 0
    ELSE LET x == CHOOSE y \in S : TRUE
         IN  f[x] + SumOver(f, S \ {x})

\* Series.unique(): the distinct values in order of first appearance.
unique(s) ==
    LET first == {i \in 1..Len(s) : \A j \in 1..(i - 1) : s[j] # s[i]}
    IN  Tuple([k \in 1..Cardinality(first) |->
            s[CHOOSE i \in first : Cardinality({j \in first : j <= i}) = k]])

\* pd.melt(df, id_vars, value_vars): one long row per cell, column by column
\* and, within a column, row by row.
melt(wide) ==
    LET nr == Len(wide.rows)
        nc == Len(wide.columns)
    IN  Tuple([i \in 1..(nr * nc) |->
            LET c == ((i - 1) \div nr) + 1
                r == ((i - 1) % nr) + 1
            IN  [province_state |-> wide.rows[r].province_state,
                 country        |-> wide.rows[r].country,
                 date           |-> wide.columns[c],
                 cases          |-> wide.rows[r].vals[c]]])

\* The order of group keys (country, date): by name, then by Timestamp.
KeyLess(a, b) ==
    \/ NameRank[a.country] < NameRank[b.country]
    \/ a.country = b.country /\ a.date < b.date

\* groupby(sort=False): the group keys in order of first appearance.
SortKeys_unsorted(ks) == ks

\* Distinct group keys in ascending order (groupby's sort=True).
SortKeys(ks) ==
    Tuple([k \in 1..Len(ks) |->
        ks[CHOOSE i \in 1..Len(ks) :
              Cardinality({j \in 1..Len(ks) : KeyLess(ks[j], ks[i])}) = k - 1]])

\* groupby(...).first() in place of sum(): the value of the first row of a key.
groupby_first(long) ==
    LET keys == unique(Tuple([i \in 1..Len(long) |->
                    [country |-> long[i].country, date |-> long[i].date]]))
        ks   == SortKeys(keys)
        rowsof(k) == SelectSeq(long, LAMBDA r : r.country = k.country /\ r.date = k.date)
    IN  Tuple([j \in 1..Len(ks) |->
            [country |-> ks[j].country, date |-> ks[j].date,
             cases |-> rowsof(ks[j])[1].cases]])

\* df.groupby(['country', 'date'], as_index=False)['cases'].sum(): one row per
\* distinct key, keys sorted, the value the sum over the rows of that key.
groupby_sum(long) ==
    LET keys == unique(Tuple([i \in 1..Len(long) |->
                    [country |-> long[i].country, date |-> long[i].date]]))
        ks   == SortKeys(keys)
        rowsof(k) == SelectSeq(long, LAMBDA r : r.country = k.country /\ r.date = k.date)
        total(rs) == SumSeq([i \in 1..Len(rs) |-> rs[i].cases])
    IN  Tuple([j \in 1..Len(ks) |->
            [country |-> ks[j].country, date |-> ks[j].date,
             cases |-> total(rowsof(ks[j]))]])

\* prepare_data_1 with the downward revisions taken out province by province
\* before the sum: each cell of a raw row is the row's first cell plus the
\* increases of the row up to the cell's date, a decrease counting as 0.
prepare_data_1_clamped_regions(wide) ==
    LET long   == melt(wide)
        parsed == Tuple([i \in 1..Len(long) |->
                      [long[i] EXCEPT !.date = to_datetime(long[i].date)]])
        region(i) == {j \in 1..Len(parsed) :
                         /\ parsed[j].province_state = parsed[i].province_state
                         /\ parsed[j].country = parsed[i].country}
        prev(i)   == {j \in region(i) : parsed[j].date < parsed[i].date}
        gain(i)   == IF prev(i) = {} THEN parsed[i].cases
                     ELSE LET j == CHOOSE l \in prev(i) :
                                      \A m \in prev(i) : parsed[m].date <= parsed[l].date
                          IN  IF parsed[i].cases < parsed[j].cases THEN 0
                              ELSE parsed[i].cases - parsed[j].cases
        gains     == Tuple([i \in 1..Len(parsed) |-> gain(i)])
        raised    == Tuple([i \in 1..Len(parsed) |->
                         [parsed[i] EXCEPT !.cases =
                             SumOver(gains, {j \in region(i) :
                                                parsed[j].date <= parsed[i].date})]])
    IN  groupby_sum(raised)

\* CasesData.prepare_data_1 on a downloaded wide table: melt, parse the dates,
\* sum by country and date.
prepare_data_1(wide) ==
    LET long   == melt(wide)
        parsed == Tuple([i \in 1..Len(long) |->
                      [long[i] EXCEPT !.date = to_datetime(long[i].date)]])
    IN  groupby_sum(parsed)

\* numpy.nan in a column of strings.
nan_str == "nan"

\* The metrics record as countre gave it, '' left in place.
replace_empty_none(m) == m

\* DataFrame.replace('', numpy.nan) on one metrics record.
replace_empty(m) ==
    [f \in DOMAIN m |->
        IF f = "population" THEN (IF m[f] = empty_cell THEN NaN ELSE m[f])
        ELSE IF m[f] = "" THEN nan_str ELSE m[f]]

\* One row of the merged frame: the left row and the metrics of its country.
merged_row(r, m) ==
    [country |-> r.country, date |-> r.date, cases |-> r.cases,
     iso3 |-> m.iso3, population |-> m.population, OECD |-> m.OECD,
     EU_EEA |-> m.EU_EEA, continent |-> m.continent, flag |-> m.flag,
     latitude |-> m.latitude, longitude |-> m.longitude]

\* The metrics of a left row no right row matches (how='left').
all_nan ==
    [iso3 |-> nan_str, population |-> NaN, OECD |-> nan_str, EU_EEA |-> nan_str,
     continent |-> nan_str, flag |-> nan_str, latitude |-> nan_str,
     longitude |-> nan_str]

RECURSIVE Concat(_)
Concat(ss) == IF ss = <<>> THEN <<>> ELSE Head(ss) \o Concat(Tail(ss))

\* left.merge(right, on='country', how='left'): the left rows in their order,
\* each once per right row of the same country (once, with NaN, when none).
merge_left(left, names, metrics) ==
    LET matches(r) == SelectSeq([i \in 1..Len(names) |-> i],
                                LAMBDA i : names[i] = r.country)
        out(r) == IF matches(r) = <<>> THEN <<merged_row(r, all_nan)>>
                  ELSE [k \in 1..Len(matches(r)) |->
                           merged_row(r, metrics[matches(r)[k]])]
    IN  Concat([i \in 1..Len(left) |-> out(left[i])])

\* The merged frame with the unmatched names left in.
drop_no_match_none(df) == df

\* cases[cases['iso3'] != 'no match']
drop_no_match(df) == SelectSeq(df, LAMBDA r : r.iso3 # "no match")

\* cases['country'] without .unique(): one name per row.
country_list_all(df) == Tuple([i \in 1..Len(df) |-> df[i].country])

\* country_list = cases['country'].unique()
country_list_of(df) == unique(Tuple([i \in 1..Len(df) |-> df[i].country]))

\* CasesData.merge_metrics on the frame of prepare_data_1: ask countre for the
\* metrics of the distinct names, merge them in, drop the unmatched names.
merge_metrics(df) ==
    LET country_list == country_list_of(df)
        info         == country_info(country_list)
        metrics      == Tuple([i \in 1..Len(info) |-> replace_empty(info[i])])
    IN  drop_no_match(merge_left(df, country_list, metrics))

\* ----------------------------------------------------------- derived metrics

Max(S) == CHOOSE x \in S : \A y \in S : y <= x

Min(S) == CHOOSE x \in S : \A y \in S : x <= y

\* The rows of a frame for one country, as indices.
RowsIn(df, c) == {i \in 1..Len(df) : df[i].country = c}

\* The rows of df[i]'s country up to and including row i, as indices.
group_upto(df, i) == {j \in 1..i : df[j].country = df[i].country}

\* df['cases'].diff() without the groupby: the value of a row minus that of
\* the row above it, whatever its country.
diff_ungrouped(df) ==
    Tuple([i \in 1..Len(df) |->
        IF i = 1 THEN NaN ELSE RInt(df[i].cases - df[i - 1].cases)])

\* The value of a row minus the largest value of the rows of the same country
\* before it; NaN on a country's first row.
diff_from_maximum(df) ==
    Tuple([i \in 1..Len(df) |->
        LET before == group_upto(df, i) \ {i}
        IN  IF before = {} THEN NaN
            ELSE RInt(df[i].cases - Max({df[j].cases : j \in before}))])

\* df.groupby('country')['cases'].apply(lambda x: x.diff()): the value of a row
\* minus that of the previous row of the same country; NaN on a country's
\* first row.  The result is assigned to the frame row by row, as pandas 1
\* aligns it (the pandas of the time the code was written).
diff(df) ==
    Tuple([i \in 1..Len(df) |->
        LET before == group_upto(df, i) \ {i}
        IN  IF before = {} THEN NaN
            ELSE RInt(df[i].cases - df[Max(before)].cases)])

\* The daily left as the difference, negative or not.
clamp_none(x) == x

\* np.where(daily < 0, 0, daily)
clamp(x) == IF lt(x, RInt(0)) THEN RInt(0) ELSE x

RECURSIVE SumCells(_, _)
SumCells(col, S) ==
    IF S = {} THEN RInt(0)
    ELSE LET j == CHOOSE x \in S : TRUE
         IN  add(col[j], SumCells(col, S \ {j}))

\* All the members of a set of row indices, whatever w.
all_rows(S, w) == S

\* The last w members of a set of row indices.
RECURSIVE last_rows(_, _)
last_rows(S, w) ==
    IF S = {} \/ w = 0 THEN {}
    ELSE {Max(S)} \cup last_rows(S \ {Max(S)}, w - 1)

\* df[col].rolling(window=7, min_periods=1).mean() without the groupby: the
\* window is the last 7 rows of the frame, whatever their country.
rolling_mean_ungrouped(df, col) ==
    Tuple([i \in 1..Len(df) |->
        LET win  == last_rows(1..i, window)
            obs  == {j \in win : ~isna(col[j])}
        IN  IF Cardinality(obs) < min_periods THEN NaN
            ELSE truediv(SumCells(col, obs), RInt(Cardinality(obs)))])

\* The sum of the window over the window's length, 7, however many cells the
\* window holds.
rolling_mean_fixed(df, col) ==
    Tuple([i \in 1..Len(df) |->
        LET win  == last_rows(group_upto(df, i), window)
            obs  == {j \in win : ~isna(col[j])}
        IN  IF Cardinality(obs) < min_periods THEN NaN
            ELSE truediv(SumCells(col, obs), RInt(window))])

\* df.groupby('country')[col].apply(lambda x: x.rolling(window=7,
\* min_periods=1).mean()): over the last 7 rows of the row's country, the mean
\* of the cells that are not NaN; NaN when there are fewer than min_periods.
rolling_mean(df, col) ==
    Tuple([i \in 1..Len(df) |->
        LET win  == last_rows(group_upto(df, i), window)
            obs  == {j \in win : ~isna(col[j])}
        IN  IF Cardinality(obs) < min_periods THEN NaN
            ELSE truediv(SumCells(col, obs), RInt(Cardinality(obs)))])

\* x / population * 100000, the scale of the US-state figures.
per_capita_100k(x, population) == mul(truediv(x, population), 100000)

\* x / population * 1000000
per_capita(x, population) == mul(truediv(x, population), per_million)

\* Whether a row holds NaN in any column.
has_nan(r) ==
    \/ \E f \in {"iso3", "OECD", "EU_EEA", "continent", "flag", "latitude",
                 "longitude"} : r[f] = nan_str
    \/ \E f \in {"population", "cases_per_million", "daily", "daily_million",
                 "seven_day_average", "seven_day_average_per_million"} : isna(r[f])

dropna(df) == SelectSeq(df, LAMBDA r : ~has_nan(r))

\* df.sort_values(['country', 'date']): a stable sort by name, then date.
sort_values(df) ==
    LET before(i) == {j \in 1..Len(df) :
                         \/ KeyLess(df[j], df[i])
                         \/ ~KeyLess(df[i], df[j]) /\ j < i}
    IN  Tuple([k \in 1..Len(df) |->
            df[CHOOSE i \in 1..Len(df) : Cardinality(before(i)) = k - 1]])

\* The new columns of CasesData.prepare_data_2, before its dropna.
derive(df) ==
    LET delta == diff(df)
        daily == Tuple([i \in 1..Len(df) |-> clamp(delta[i])])
        avg   == rolling_mean(df, daily)
    IN  Tuple([i \in 1..Len(df) |->
            [country |-> df[i].country, date |-> df[i].date, cases |-> df[i].cases,
             iso3 |-> df[i].iso3, population |-> df[i].population,
             OECD |-> df[i].OECD, EU_EEA |-> df[i].EU_EEA,
             continent |-> df[i].continent, flag |-> df[i].flag,
             latitude |-> df[i].latitude, longitude |-> df[i].longitude,
             cases_per_million |-> per_capita(RInt(df[i].cases), df[i].population),
             daily |-> daily[i],
             daily_million |-> per_capita(daily[i], df[i].population),
             seven_day_average |-> avg[i],
             seven_day_average_per_million |-> per_capita(avg[i], df[i].population)]])

\* The display columns of CasesData.prepare_data_2: the date as 'Jan 01,
\* 2000' and the six figures as strings.
display_columns(df) ==
    Tuple([i \in 1..Len(df) |->
        LET r == df[i]
        IN  [f \in DOMAIN r \cup {"date_string", "cases_str",
                    "cases_per_million_str", "daily_str", "daily_million_str",
                    "seven_day_average_str", "seven_day_average_per_million_str"} |->
                CASE f = "date_string" -> strftime(r.date)
                  [] f = "cases_str" -> str_2f(RInt(r.cases))
                  [] f = "cases_per_million_str" -> str_2f(r.cases_per_million)
                  [] f = "daily_str" -> str_2f(r.daily)
                  [] f = "daily_million_str" -> str_2f(r.daily_million)
                  [] f = "seven_day_average_str" -> str_2f(r.seven_day_average)
                  [] f = "seven_day_average_per_million_str" ->
                         str_2f(r.seven_day_average_per_million)
                  [] OTHER -> r[f]]])

\* CasesData.prepare_data_2 on the frame of merge_metrics.
prepare_data_2(df) == sort_values(display_columns(dropna(derive(df))))

\* ------------------------------------------------------------ the deaths file

\* One row with the column old named new.
rename(r, old, new) ==
    [f \in (DOMAIN r \ {old}) \cup {new} |-> IF f = new THEN r[old] ELSE r[f]]

\* A row with the columns old[k] named new[k], those of them it has.
RECURSIVE rename_all(_, _, _)
rename_all(r, old, new) ==
    IF old = <<>> THEN r
    ELSE rename_all(IF Head(old) \in DOMAIN r THEN rename(r, Head(old), Head(new))
                    ELSE r,
                    Tail(old), Tail(new))

rename_columns(df, old, new) ==
    Tuple([i \in 1..Len(df) |-> rename_all(df[i], old, new)])

CasesColumns ==
    <<"cases", "cases_per_million", "cases_str", "cases_per_million_str">>

DeathsColumns ==
    <<"deaths", "deaths_per_million", "deaths_str", "deaths_per_million_str">>

\* covid_deaths.py is covid_cases.py with 'deaths' for 'cases' in the names of
\* the columns.
as_deaths(df) == rename_columns(df, CasesColumns, DeathsColumns)

as_cases(df) == rename_columns(df, DeathsColumns, CasesColumns)

\* ------------------------------------------------------------- the US file

\* The order of Python strings on the state names.
StateRank ==
    ("Alabama" :> 1) @@ ("Alaska" :> 2) @@ ("Arizona" :> 3) @@ ("Arkansas" :> 4)
        @@ ("Grand Princess" :> 5)

\* A date label as the string the file's header holds, 'm/d/yy', one
\* character code per element.
Digits(k) == IF k < 10 THEN <<48 + k>> ELSE <<48 + (k \div 10), 48 + (k % 10)>>

LabelString(l) ==
    Digits(l.m) \o <<47>> \o Digits(l.d) \o <<47>>
        \o <<48 + (l.y \div 10), 48 + (l.y % 10)>>

\* s < t in the order of Python strings.
RECURSIVE StringLess(_, _)
StringLess(s, t) ==
    IF t = <<>> THEN FALSE
    ELSE IF s = <<>> THEN TRUE
    ELSE IF Head(s) # Head(t) THEN Head(s) < Head(t)
    ELSE StringLess(Tail(s), Tail(t))

\* pd.melt(usa, id_vars=['Province_State'], value_vars=usa.columns[12:],
\* var_name='date', value_name='deaths')
usa_melt(wide) ==
    LET nr == Len(wide.rows)
        nc == Len(wide.columns)
    IN  Tuple([i \in 1..(nr * nc) |->
            LET c == ((i - 1) \div nr) + 1
                r == ((i - 1) % nr) + 1
            IN  [Province_State |-> wide.rows[r].Province_State,
                 date           |-> wide.columns[c],
                 deaths         |-> wide.rows[r].vals[c]]])

\* usa.groupby(['Province_State', 'date'], as_index=False)['deaths'].sum():
\* one row per state and date label, the keys sorted by state and then by
\* label, as strings.
usa_groupby_sum(long) ==
    LET keys == unique(Tuple([i \in 1..Len(long) |->
                    [Province_State |-> long[i].Province_State,
                     date |-> long[i].date]]))
        less(a, b) ==
            \/ StateRank[a.Province_State] < StateRank[b.Province_State]
            \/ /\ a.Province_State = b.Province_State
               /\ StringLess(LabelString(a.date), LabelString(b.date))
        ks   == Tuple([k \in 1..Len(keys) |->
                    keys[CHOOSE i \in 1..Len(keys) :
                        Cardinality({j \in 1..Len(keys) : less(keys[j], keys[i])})
                            = k - 1]])
        rowsof(k) == SelectSeq(long, LAMBDA r : r.Province_State = k.Province_State
                                                /\ r.date = k.date)
    IN  Tuple([j \in 1..Len(ks) |->
            LET rs == rowsof(ks[j])
            IN  [Province_State |-> ks[j].Province_State, date |-> ks[j].date,
                 deaths |-> SumSeq([i \in 1..Len(rs) |-> rs[i].deaths])]])

\* UnitedStatesData.prepare_data_1 on the downloaded wide table: melt, sum by
\* state and date label, parse the dates, name the columns.
usa_prepare_data_1(wide) ==
    LET grouped == usa_groupby_sum(usa_melt(wide))
    IN  Tuple([i \in 1..Len(grouped) |->
            [state    |-> grouped[i].Province_State,
             date     |-> to_datetime(grouped[i].date),
             deaths   |-> grouped[i].deaths,
             str_date |-> strftime(to_datetime(grouped[i].date))]])

\* data/us_states_data.csv: the population and the coordinates of each state.
us_states ==
    <<[state |-> "Alabama", population |-> RInt(5000), latitude |-> "33",
       longitude |-> "-87"],
      [state |-> "Alaska", population |-> RInt(700), latitude |-> "64",
       longitude |-> "-152"],
      [state |-> "Arizona", population |-> RInt(7000), latitude |-> "34",
       longitude |-> "-112"],
      [state |-> "Arkansas", population |-> RInt(3000), latitude |-> "35",
       longitude |-> "-92"]>>

\* usa.merge(us_states, on='state', how='left'): the rows of the frame in
\* their order, each with the columns of its state's row of the file, or with
\* NaN in them when the file has no row for the state.
usa_merge_left(left, right) ==
    LET out(r) ==
            LET ms == SelectSeq(right, LAMBDA m : m.state = r.state)
            IN  IF ms = <<>>
                THEN <<[state |-> r.state, date |-> r.date, deaths |-> r.deaths,
                        str_date |-> r.str_date, population |-> NaN,
                        latitude |-> nan_str, longitude |-> nan_str]>>
                ELSE [k \in 1..Len(ms) |->
                         [state |-> r.state, date |-> r.date, deaths |-> r.deaths,
                          str_date |-> r.str_date, population |-> ms[k].population,
                          latitude |-> ms[k].latitude,
                          longitude |-> ms[k].longitude]]
    IN  Concat([i \in 1..Len(left) |-> out(left[i])])

\* UnitedStatesData.merge_metrics on the frame of prepare_data_1: the merge,
\* and dropna() on its result.
usa_merge_metrics(df) ==
    SelectSeq(usa_merge_left(df, us_states),
              LAMBDA r : /\ ~isna(r.population)
                         /\ r.latitude # nan_str /\ r.longitude # nan_str)

\* usa.sort_values('date'): the rows by date; the rows of one date in the
\* order of the frame, or in the opposite order.
usa_sort_values(df, opposite) ==
    LET before(i) == {j \in 1..Len(df) :
                         \/ df[j].date < df[i].date
                         \/ /\ df[j].date = df[i].date
                            /\ IF opposite THEN j > i ELSE j < i}
    IN  Tuple([k \in 1..Len(df) |->
            df[CHOOSE i \in 1..Len(df) : Cardinality(before(i)) = k - 1]])

\* rank(method='min', ascending=False) within the rows of a date: one more
\* than the number of rows of the date with a larger value.
rank_min(df, col) ==
    Tuple([i \in 1..Len(df) |->
        1 + Cardinality({j \in 1..Len(df) :
                            df[j].date = df[i].date /\ lt(col[i], col[j])})])

\* df.groupby('date')[col].rank(method='dense', ascending=False).astype(int):
\* one more than the number of distinct larger values among the rows of the
\* row's date.
rank_dense(df, col) ==
    Tuple([i \in 1..Len(df) |->
        1 + Cardinality({col[j] : j \in {l \in 1..Len(df) :
                            df[l].date = df[i].date /\ lt(col[i], col[l])}})])

\* f'{x:,.2f}'
format_2f(x) ==
    IF isna(x) THEN "nan"
    ELSE IF isinf(x) THEN (IF x.n < 0 THEN "-inf" ELSE "inf")
    ELSE LET h == round_units(x, 100)
         IN  (IF x.n < 0 THEN "-" ELSE "") \o thousands(h.whole)
                 \o "." \o two_digits(h.part)

\* UnitedStatesData.prepare_data_2 on the frame of merge_metrics: the deaths
\* per 100,000, the rows by date, the two ranks within each date and the two
\* figures as strings.
usa_prepare_data_2(df, opposite) ==
    LET rated  == Tuple([i \in 1..Len(df) |->
                      per_capita_100k(RInt(df[i].deaths), df[i].population)])
        with   == Tuple([i \in 1..Len(df) |->
                      [f \in DOMAIN df[i] \cup {"deaths_per_100k"} |->
                          IF f = "deaths_per_100k" THEN rated[i] ELSE df[i][f]]])
        sorted == usa_sort_values(with, opposite)
        total  == rank_dense(sorted, Tuple([i \in 1..Len(sorted) |->
                                               RInt(sorted[i].deaths)]))
        per    == rank_dense(sorted, Tuple([i \in 1..Len(sorted) |->
                                               sorted[i].deaths_per_100k]))
    IN  Tuple([i \in 1..Len(sorted) |->
            [f \in DOMAIN sorted[i] \cup {"rank_total", "rank_per_100k",
                        "deaths_str", "deaths_per_100k_str"} |->
                CASE f = "rank_total" -> total[i]
                  [] f = "rank_per_100k" -> per[i]
                  [] f = "deaths_str" -> thousands(sorted[i].deaths)
                  [] f = "deaths_per_100k_str" -> format_2f(sorted[i].deaths_per_100k)
                  [] OTHER -> sorted[i][f]]])

\* ------------------------------------------------------- continent breakdown

\* The order of Python strings on the continent names.
ContinentRank ==
    ("Asia" :> 1) @@ ("Europe" :> 2) @@ ("North America" :> 3) @@ ("Oceania" :> 4)

\* '2020-03-01', the date the breakdown starts after.
min_date == Label(3, 1, 20)

\* The rows dated on 2020-03-01 or later.
from_min_date(df) == SelectSeq(df, LAMBDA r : r.date >= to_datetime(min_date))

\* cases[cases['date'] > '2020-03-01']
after_min_date(df) == SelectSeq(df, LAMBDA r : r.date > to_datetime(min_date))

\* x / total, the share as a fraction of 1.
fraction(x, total) == truediv(x, total)

\* x / total * 100
percentage(x, total) == mul(truediv(x, total), 100)

\* CasesContinents.prepare_data on the derived frame: the rows after
\* 2020-03-01 summed by continent and date, and each sum as a percentage of
\* the sum of its date over all continents.
continents_prepare_data(df) ==
    LET sel   == after_min_date(df)
        keys  == unique(Tuple([i \in 1..Len(sel) |->
                     [continent |-> sel[i].continent, date |-> sel[i].date]]))
        less(a, b) ==
            \/ ContinentRank[a.continent] < ContinentRank[b.continent]
            \/ a.continent = b.continent /\ a.date < b.date
        ks    == Tuple([k \in 1..Len(keys) |->
                     keys[CHOOSE i \in 1..Len(keys) :
                         Cardinality({j \in 1..Len(keys) : less(keys[j], keys[i])})
                             = k - 1]])
        rowsof(k) == SelectSeq(sel, LAMBDA r : r.continent = k.continent
                                               /\ r.date = k.date)
        sums  == Tuple([j \in 1..Len(ks) |->
                     LET rs == rowsof(ks[j])
                     IN  [continent |-> ks[j].continent, date |-> ks[j].date,
                          cases |-> SumSeq([i \in 1..Len(rs) |-> rs[i].cases]),
                          daily |-> SumCells([i \in 1..Len(rs) |-> rs[i].daily],
                                             1..Len(rs))]])
        ondate(d) == {j \in 1..Len(sums) : sums[j].date = d}
        cases_col == Tuple([j \in 1..Len(sums) |-> RInt(sums[j].cases)])
        daily_col == Tuple([j \in 1..Len(sums) |-> sums[j].daily])
    IN  Tuple([j \in 1..Len(sums) |->
            [continent |-> sums[j].continent, date |-> sums[j].date,
             cases |-> sums[j].cases, daily |-> sums[j].daily,
             pct_total |->
                 percentage(cases_col[j], SumCells(cases_col, ondate(sums[j].date))),
             pct_daily |->
                 percentage(daily_col[j], SumCells(daily_col, ondate(sums[j].date)))]])

\* ------------------------------------------------------------ summary tables

top_n == 10
two_week_days == 14
per_100000 == 100000
lag_days == 20

\* The cell of a row in a numeric column, as a float.
cell(r, var) == IF var \in {"cases", "deaths"} THEN RInt(r[var]) ELSE r[var]

\* df.sort_values(col, ascending=False) with key the column: larger keys
\* first, NaN last, rows of equal key in the order of the frame.
sort_values_descending(df, key) ==
    LET before(i) ==
            {j \in 1..Len(df) :
                IF isna(key[i]) THEN ~isna(key[j]) \/ j < i
                ELSE /\ ~isna(key[j])
                     /\ lt(key[i], key[j]) \/ (key[j] = key[i] /\ j < i)}
    IN  Tuple([k \in 1..Len(df) |->
            df[CHOOSE i \in 1..Len(df) : Cardinality(before(i)) = k - 1]])

\* df.tail(n)
tail(df, n) == SubSeq(df, IF Len(df) < n THEN 1 ELSE Len(df) - n + 1, Len(df))

\* df.head(n)
head(df, n) == SubSeq(df, 1, IF Len(df) < n THEN Len(df) ELSE n)

\* SummaryTables.create_df(df, var_1, var_2): the rows of the latest date,
\* the ten largest in var_1 first, the two figures as strings, with their
\* rank.
SummaryTables_create_df(df, var_1, var_2) ==
    IF df = <<>> THEN <<>>
    ELSE LET latest == Max({df[i].date : i \in 1..Len(df)})
             rows   == SelectSeq(df, LAMBDA r : r.date = latest)
             sorted == sort_values_descending(rows,
                           Tuple([i \in 1..Len(rows) |-> cell(rows[i], var_1)]))
             top    == head(sorted, top_n)
         IN  Tuple([i \in 1..Len(top) |->
                 [country |-> top[i].country,
                  var_1 |-> str_round_2(cell(top[i], var_1)),
                  var_2 |-> str_round_2(cell(top[i], var_2)), rank |-> i]])

\* The eight top-10 tables in the order plot() writes them: the file, the
\* frame read, the column sorted by and the second column shown.
SummaryTablesList ==
    <<[file |-> "total_deaths", df |-> "deaths",
       var_1 |-> "deaths", var_2 |-> "deaths_per_million"],
      [file |-> "daily_deaths", df |-> "deaths",
       var_1 |-> "daily", var_2 |-> "deaths"],
      [file |-> "total_deaths_per_million", df |-> "deaths",
       var_1 |-> "deaths_per_million", var_2 |-> "deaths"],
      [file |-> "daily_deaths_per_million", df |-> "deaths",
       var_1 |-> "daily_million", var_2 |-> "daily"],
      [file |-> "total_cases", df |-> "cases",
       var_1 |-> "cases", var_2 |-> "cases_per_million"],
      [file |-> "daily_cases", df |-> "cases",
       var_1 |-> "daily", var_2 |-> "cases"],
      [file |-> "total_cases_per_million", df |-> "cases",
       var_1 |-> "cases_per_million", var_2 |-> "cases"],
      [file |-> "daily_cases_per_million", df |-> "cases",
       var_1 |-> "daily_million", var_2 |-> "daily"]>>

\* LastTwoWeeks.countries: names of the watch list, in its order.
countries ==
    <<"Sweden", "United Kingdom", "France", "Spain", "Norway", "Denmark",
      "Germany", "Portugal", "Poland", "Italy", "Belgium", "Austria",
      "Netherlands", "Switzerland", "Ireland", "Greece", "New Zealand",
      "Australia", "US">>

\* country_info([country], 'population')[0]
population_of(country) == country_info(<<country>>)[1].population

\* LastTwoWeeks.two_weeks(df, country): the daily of the country's last 14
\* rows, summed, per 100,000 of the population the resolver gives.
two_weeks(df, country) ==
    LET last      == last_rows(RowsIn(df, country), two_week_days)
        incidence == SumCells(Tuple([i \in 1..Len(df) |-> df[i].daily]), last)
    IN  round(mul(truediv(incidence, population_of(country)), per_100000))

\* The table with a row for those names of the watch list only that have
\* rows in the frame.
LastTwoWeeks_create_df_present(df) ==
    LET listed == SelectSeq(countries, LAMBDA c : RowsIn(df, c) # {})
        total  == Tuple([i \in 1..Len(listed) |-> two_weeks(df, listed[i])])
        frame  == Tuple([i \in 1..Len(listed) |->
                      [country |-> listed[i], fourteen_day |-> total[i]]])
        sorted == sort_values_descending(frame, total)
    IN  Tuple([i \in 1..Len(sorted) |->
            [country |-> sorted[i].country,
             fourteen_day |-> sorted[i].fourteen_day, rank |-> i]])

\* LastTwoWeeks.create_df(df): one row per name of the watch list, the
\* largest figure first.
LastTwoWeeks_create_df(df) ==
    LET total  == Tuple([i \in 1..Len(countries) |-> two_weeks(df, countries[i])])
        frame  == Tuple([i \in 1..Len(countries) |->
                      [country |-> countries[i], fourteen_day |-> total[i]]])
        sorted == sort_values_descending(frame, total)
    IN  Tuple([i \in 1..Len(sorted) |->
            [country |-> sorted[i].country,
             fourteen_day |-> sorted[i].fourteen_day, rank |-> i]])

\* ['start', 'end'] * n, by position.
date_id(i) == IF i % 2 = 1 THEN "start" ELSE "end"

\* The rows Recovered.create_df selects from the deaths frame and from the
\* cases frame.
Recovered_deaths(deaths, start_date, today) ==
    SelectSeq(deaths, LAMBDA r : r.date = to_datetime(start_date) \/ r.date = today)

Recovered_cases(cases, start_date, today) ==
    SelectSeq(cases, LAMBDA r : \/ r.date = to_datetime(start_date)
                                \/ r.date = today - lag_days)

\* Whether assigning the date_id column raises ValueError: the list holds two
\* ids per country, the frame has to hold as many rows.
date_id_raises(df) ==
    Len(df) # 2 * Len(unique(Tuple([i \in 1..Len(df) |-> df[i].country])))

\* Recovered.create_df(deaths, cases, start_date), when it raises nothing: per
\* country the change in deaths over the change in cases between the rows
\* marked start and end, as a percentage, the largest first.
Recovered_create_df(deaths, cases, start_date, today) ==
    LET d == Recovered_deaths(deaths, start_date, today)
        c == Recovered_cases(cases, start_date, today)
        matches(i) == SelectSeq([j \in 1..Len(c) |-> j],
                          LAMBDA j : c[j].country = d[i].country
                                     /\ date_id(j) = date_id(i))
        out(i) == IF matches(i) = <<>>
                  THEN <<[country |-> d[i].country, deaths |-> RInt(d[i].deaths),
                          cases |-> NaN]>>
                  ELSE [k \in 1..Len(matches(i)) |->
                           [country |-> d[i].country, deaths |-> RInt(d[i].deaths),
                            cases |-> RInt(c[matches(i)[k]].cases)]]
        merged == Concat([i \in 1..Len(d) |-> out(i)])
        sub(x, y) == add(x, mul(y, -1))
        diffs  == Tuple([i \in 1..Len(merged) |->
                      LET before == group_upto(merged, i) \ {i}
                      IN  IF before = {}
                          THEN [country |-> merged[i].country,
                                deaths |-> NaN, cases |-> NaN]
                          ELSE [country |-> merged[i].country,
                                deaths |-> sub(merged[i].deaths,
                                               merged[Max(before)].deaths),
                                cases |-> sub(merged[i].cases,
                                              merged[Max(before)].cases)]])
        kept   == SelectSeq(diffs, LAMBDA r : ~isna(r.deaths) /\ ~isna(r.cases))
        rate   == Tuple([i \in 1..Len(kept) |-> truediv(kept[i].deaths, kept[i].cases)])
        frame  == Tuple([i \in 1..Len(kept) |->
                      [country |-> kept[i].country, case_fatality_rate |-> rate[i]]])
        sorted == sort_values_descending(frame, rate)
    IN  Tuple([i \in 1..Len(sorted) |->
            [country |-> sorted[i].country,
             case_fatality_rate |-> round(mul(sorted[i].case_fatality_rate, 100)),
             rank |-> i]])

\* df[df['OECD'] == True]
oecd(df) == SelectSeq(df, LAMBDA r : r.OECD = "True")

\* The four case-fatality tables in the order plot() writes them.
RecoveredTables ==
    <<[file |-> "recovered_all", oecd |-> FALSE, start_date |-> Label(2, 1, 20)],
      [file |-> "recovered_autumn", oecd |-> FALSE, start_date |-> Label(8, 1, 20)],
      [file |-> "recovered_all_OECD", oecd |-> TRUE, start_date |-> Label(2, 1, 20)],
      [file |-> "recovered_autumn_OECD", oecd |-> TRUE, start_date |-> Label(8, 1, 20)]>>

\* ------------------------------------------------------------ the raw tables

Reverse(s) == [i \in 1..Len(s) |-> s[Len(s) + 1 - i]]

\* A wide table with its rows and its date columns in the opposite order.
reversed(wide) ==
    [columns |-> Reverse(wide.columns),
     rows    |-> Reverse([i \in 1..Len(wide.rows) |->
                    [wide.rows[i] EXCEPT !.vals = Reverse(wide.rows[i].vals)]])]

raw_row(province, country, vals) ==
    [province_state |-> province, country |-> country, vals |-> vals]

\* The date columns of the short tables: the day before, the day of and the
\* day after 2020-03-01.
ShortColumns == <<Label(2, 29, 20), Label(3, 1, 20), Label(3, 2, 20)>>

\* A series that steps from 0 to v after the first date.
step_series(n, v) == [i \in 1..n |-> IF i = 1 THEN 0 ELSE v]

\* The cells of one row of a table of n date columns: any number up to MaxVal.
Series(n) == [1..n -> 0..MaxVal]

\* The cells of a row that reports nothing or MaxVal on each date.
TwoValued(n) == [1..n -> {0, MaxVal}]

\* A snapshot of the cases file the short runs read, with the first n date
\* columns: Australia reported as two provinces and Belgium as one row; an
\* unmatched name, a name without coordinates and a name without population;
\* rows and columns in the file's order, or in the opposite order.
short_table(n, a1, a2, b, opposite) ==
    LET t == [columns |-> SubSeq(ShortColumns, 1, n),
              rows |-> <<raw_row("New South Wales", "Australia", a1),
                         raw_row("Victoria", "Australia", a2),
                         raw_row(nan_str, "Belgium", b),
                         raw_row(nan_str, "Diamond Princess", step_series(n, MaxVal)),
                         raw_row(nan_str, "Holy See", step_series(n, MaxVal)),
                         raw_row(nan_str, "Kosovo", step_series(n, MaxVal))>>]
    IN  IF opposite THEN reversed(t) ELSE t

\* The date columns of the long tables: nine days across the turn of the year.
LongColumns ==
    <<Label(12, 27, 20), Label(12, 28, 20), Label(12, 29, 20), Label(12, 30, 20),
      Label(12, 31, 20), Label(1, 1, 21), Label(1, 2, 21), Label(1, 3, 21),
      Label(1, 4, 21)>>

\* The column of a long table whose cell is revised down to 0: the middle one.
DipAt == (Len(LongColumns) + 1) \div 2

\* The cumulative series that starts at 0 and grows by ds[i] from column i to
\* column i + 1; with dip, its cell in column DipAt is 0.
RECURSIVE cumulate(_, _)
cumulate(ds, n) == IF n <= 1 THEN 0 ELSE cumulate(ds, n - 1) + ds[n - 1]

long_series(ds, dip) ==
    [i \in 1..Len(LongColumns) |-> IF dip /\ i = DipAt THEN 0 ELSE cumulate(ds, i)]

\* A snapshot of the cases file the long runs read: Australia with an
\* increase of 0 or MaxDelta per day and, with dip, one downward revision;
\* Belgium growing by MaxDelta + 1 every day.
long_table(ds, dip) ==
    [columns |-> LongColumns,
     rows |-> <<raw_row(nan_str, "Australia", long_series(ds, dip)),
                raw_row(nan_str, "Belgium",
                        [i \in 1..Len(LongColumns) |-> (MaxDelta + 1) * i])>>]

\* The date columns of the full tables: the first day of the file, the two
\* start dates of the case-fatality tables, and the 50th, the 20th and the
\* last day before the end.
FullColumns ==
    <<Label(1, 22, 20), Label(2, 1, 20), Label(7, 12, 20), Label(8, 1, 20),
      Label(8, 12, 20), Label(9, 1, 20)>>

\* A series that grows by g from each date column to the next.
linear_series(g, start) == [i \in 1..Len(FullColumns) |-> start + g * (i - 1)]

\* A snapshot of a file the whole run reads: Australia in two provinces,
\* Belgium, and an unmatched name and a name without population that both
\* report step more on every date.
full_table(g1, g2, step) ==
    [columns |-> FullColumns,
     rows |-> <<raw_row("New South Wales", "Australia", linear_series(g1, 0)),
                raw_row("Victoria", "Australia", linear_series(1, 1)),
                raw_row(nan_str, "Belgium", linear_series(g2, step)),
                raw_row(nan_str, "Diamond Princess", linear_series(step, step)),
                raw_row(nan_str, "Kosovo", linear_series(step, 0))>>]

\* The date columns of the tables of the continent runs: the day before
\* 2020-03-01, the day itself and the two days after it.
ContinentColumns ==
    <<Label(2, 29, 20), Label(3, 1, 20), Label(3, 2, 20), Label(3, 3, 20)>>

\* A snapshot of a file the continent runs read: one name of Oceania and two
\* of Europe, the second of them reporting s more on every date.
continent_table(a, b, s) ==
    [columns |-> ContinentColumns,
     rows |-> <<raw_row(nan_str, "Australia", a),
                raw_row(nan_str, "Belgium", b),
                raw_row(nan_str, "Sweden",
                        [i \in 1..Len(ContinentColumns) |-> s * i])>>]

\* The names of the world tables, those the resolver matches with every
\* metric: two more than a top-10 table holds.
WorldNames ==
    <<"Australia", "Austria", "Belgium", "Canada", "Denmark", "Finland",
      "France", "Germany", "Italy", "Japan", "Norway", "Sweden">>

\* A snapshot of a file the whole run reads, with more names than a top-10
\* table holds: Australia, Belgium and Sweden start at 0 and report a, b and
\* c more on every date; the k-th of the other names starts at k and reports
\* k more on every date.
world_table(a, b, c) ==
    [columns |-> FullColumns,
     rows |-> [k \in 1..Len(WorldNames) |->
                 raw_row(nan_str, WorldNames[k],
                     CASE WorldNames[k] = "Australia" -> linear_series(a, 0)
                       [] WorldNames[k] = "Belgium" -> linear_series(b, 0)
                       [] WorldNames[k] = "Sweden" -> linear_series(c, 0)
                       [] OTHER -> linear_series(k, k))]]

\* The date columns of the fortnight tables: the first five of the full
\* tables and the thirteen days up to 2020-09-01, so that a country has
\* seventeen derived rows, three more than LastTwoWeeks sums.
FortnightColumns ==
    SubSeq(FullColumns, 1, 5)
        \o [i \in 1..13 |-> IF i < 13 THEN Label(8, 19 + i, 20) ELSE Label(9, 1, 20)]

\* A snapshot of a file the whole run reads, on the fortnight columns (long)
\* or on the columns of the full tables: Australia reports early more on each
\* date up to the 14th from the end and late more on each of the last 14
\* dates, and, with dip, 0 on the last date but one; Austria, Belgium and
\* Sweden report 1, 2 and 3 more on every date.
fortnight_table(long, early, late, dip) ==
    LET columns == IF long THEN FortnightColumns ELSE FullColumns
        n       == Len(columns)
        before  == Max({1, n - two_week_days})
        australia(i) ==
            IF dip /\ i = n - 1 THEN 0
            ELSE early * (Min({i, before}) - 1) + late * Max({0, i - before})
    IN  [columns |-> columns,
         rows |-> <<raw_row(nan_str, "Australia", [i \in 1..n |-> australia(i)]),
                    raw_row(nan_str, "Austria", [i \in 1..n |-> i]),
                    raw_row(nan_str, "Belgium", [i \in 1..n |-> 2 * i]),
                    raw_row(nan_str, "Sweden", [i \in 1..n |-> 3 * i])>>]

\* A wide table from its k-th date column on: a file whose history starts
\* later.
from_column(wide, k) ==
    [columns |-> SubSeq(wide.columns, k, Len(wide.columns)),
     rows |-> [r \in 1..Len(wide.rows) |->
                 [wide.rows[r] EXCEPT
                     !.vals = SubSeq(wide.rows[r].vals, k, Len(wide.columns))]]]

\* A wide table without the rows of one name (of no name, when the table
\* does not hold it).
without(wide, name) ==
    [columns |-> wide.columns,
     rows |-> SelectSeq(wide.rows, LAMBDA row : row.country # name)]

\* Column labels that are no date under '%m/%d/%y': '13/1/20', '2/30/20'
\* and '1/22/2020'.
MalformedLabels == {Label(13, 1, 20), Label(2, 30, 20), Label(1, 22, 2020)}

\* A wide table with label l on its k-th date column.
with_label(wide, k, l) ==
    [columns |-> [wide.columns EXCEPT ![k] = l], rows |-> wide.rows]

\* The names of the unmatched tables that the resolver does not match.
UnmatchedNames == <<"Diamond Princess", "MS Zaandam">>

\* A snapshot of a file the unmatched runs read, on the short columns:
\* Australia in two provinces and Belgium, with the first k of the unmatched
\* names, one before the rows of the matched names and one among them; each
\* unmatched name reports MaxVal more on every date.
unmatched_table(a1, a2, b, k) ==
    LET n == Len(ShortColumns)
        ship(j) == IF j <= k
                   THEN <<raw_row(nan_str, UnmatchedNames[j],
                                  [i \in 1..n |-> MaxVal * i])>>
                   ELSE <<>>
    IN  [columns |-> ShortColumns,
         rows |-> ship(1)
                    \o <<raw_row("New South Wales", "Australia", a1)>>
                    \o ship(2)
                    \o <<raw_row("Victoria", "Australia", a2),
                          raw_row(nan_str, "Belgium", b)>>]

\* A snapshot of the cases file the region runs read, on the short columns:
\* Australia in two provinces, the second reporting twice the cell it is
\* given, and Belgium in one row.
region_table(a1, a2, b) ==
    [columns |-> ShortColumns,
     rows |-> <<raw_row("New South Wales", "Australia", a1),
                raw_row("Victoria", "Australia",
                        [i \in 1..Len(ShortColumns) |-> 2 * a2[i]]),
                raw_row(nan_str, "Belgium", b)>>]

\* The file of a run that does not read it.
no_file == [columns |-> <<>>, rows |-> <<>>]

\* A snapshot of the US deaths file, with the first n date columns: Alabama
\* reported by two counties and Alaska by one.
usa_table(n, a1, a2, opposite) ==
    LET t == [columns |-> SubSeq(ShortColumns, 1, n),
              rows |-> <<[Admin2 |-> "Autauga", Province_State |-> "Alabama",
                          vals |-> a1],
                         [Admin2 |-> "Baldwin", Province_State |-> "Alabama",
                          vals |-> a2],
                         [Admin2 |-> "Anchorage", Province_State |-> "Alaska",
                          vals |-> step_series(n, MaxVal)]>>]
    IN  IF opposite THEN reversed(t) ELSE t

\* The date columns of the states tables: two days.
StatesColumns == <<Label(3, 1, 20), Label(3, 2, 20)>>

\* A snapshot of the US deaths file the states runs read: Alabama by two
\* counties, three more states by one county each and a ship that the file
\* of the states does not list; on the first date two of the states report
\* the same count, on the second each state reports the count it is given.
states_table(v) ==
    [columns |-> StatesColumns,
     rows |-> <<[Admin2 |-> "Autauga", Province_State |-> "Alabama",
                 vals |-> <<1, v[1]>>],
                [Admin2 |-> "Baldwin", Province_State |-> "Alabama",
                 vals |-> <<1, 0>>],
                [Admin2 |-> "Unassigned", Province_State |-> "Grand Princess",
                 vals |-> <<3, 3 * MaxVal>>],
                [Admin2 |-> "Anchorage", Province_State |-> "Alaska",
                 vals |-> <<1, v[2]>>],
                [Admin2 |-> "Maricopa", Province_State |-> "Arizona",
                 vals |-> <<2, v[3]>>],
                [Admin2 |-> "Pulaski", Province_State |-> "Arkansas",
                 vals |-> <<0, v[4]>>]>>]

\* The US deaths file of the whole run.
full_usa_table ==
    [columns |-> FullColumns,
     rows |-> <<[Admin2 |-> "Autauga", Province_State |-> "Alabama",
                 vals |-> linear_series(1, 0)],
                [Admin2 |-> "Baldwin", Province_State |-> "Alabama",
                 vals |-> linear_series(2, 1)],
                [Admin2 |-> "Anchorage", Province_State |-> "Alaska",
                 vals |-> linear_series(1, 1)]>>]

\* -------------------------------------------------------------------- state

VARIABLES
    pc,                \* the step of the run about to execute
    url_cases,         \* the cases file at the CSSE url
    cases_1,           \* the frame CasesData.prepare_data_1 returns
    cases_m,           \* the frame CasesData.merge_metrics returns
    cases,             \* the frame CasesData.prepare_data_2 returns
    url_deaths,        \* the deaths file at the CSSE url
    deaths_1,          \* the frame DeathsData.prepare_data_1 returns
    deaths_m,          \* the frame DeathsData.merge_metrics returns
    deaths,            \* the frame DeathsData.prepare_data_2 returns
    continent_cases,   \* the frame CasesContinents.prepare_data returns
    continent_deaths,  \* the frame DeathsContinents.prepare_data returns
    url_usa,           \* the US deaths file at the CSSE url
    usa_1,             \* the frame UnitedStatesData.prepare_data_1 returns
    usa_m,             \* the frame UnitedStatesData.merge_metrics returns
    usa,               \* the frame UnitedStatesData.prepare_data_2 returns
    unreachable,       \* the series whose file cannot be read in this run
    fetched,           \* the series whose download was called, in order
    asked,             \* the lists of names merge_metrics of CasesData and of
                       \* DeathsData handed to country_info, in order
    data,              \* the frames get_data holds so far, by their key in the
                       \* dict it returns
    written,           \* the groups of output files written so far
    summary_tables,    \* the top-10 tables written, by file name
    two_week_tables,   \* the 14-day tables written, by file name
    recovered_tables   \* the case-fatality tables written, by file name

cases_vars == <<url_cases, cases_1, cases_m, cases>>

deaths_vars == <<url_deaths, deaths_1, deaths_m, deaths>>

continent_vars == <<continent_cases, continent_deaths>>

usa_vars == <<url_usa, usa_1, usa_m, usa>>

fetch_vars == <<unreachable, fetched>>

table_vars == <<summary_tables, two_week_tables, recovered_tables>>

vars == <<pc, cases_vars, deaths_vars, continent_vars, usa_vars, fetch_vars, asked,
          data, written, table_vars>>

\* Nothing downloaded, nothing prepared and nothing written yet.
InitFrames ==
    /\ cases_1 = <<>> /\ cases_m = <<>> /\ cases = <<>>
    /\ deaths_1 = <<>> /\ deaths_m = <<>> /\ deaths = <<>>
    /\ continent_cases = <<>> /\ continent_deaths = <<>>
    /\ usa_1 = <<>> /\ usa_m = <<>> /\ usa = <<>>
    /\ fetched = <<>> /\ asked = <<>>
    /\ data = {} /\ written = {}
    /\ summary_tables = <<>> /\ two_week_tables = <<>> /\ recovered_tables = <<>>

\* The start of a run in which every file can be read.
InitRun == InitFrames /\ unreachable = {}

\* main(): the whole run on full tables.
Init ==
    /\ InitRun
    /\ pc = "cases.prepare_data_1"
    /\ \E g1 \in 0..MaxGrowth, g2 \in 0..MaxGrowth :
          url_cases = full_table(g1, g2, 3)
    /\ \E g1 \in 0..MaxGrowth, g2 \in 0..MaxGrowth :
          url_deaths = full_table(g1, g2, 2)
    /\ url_usa = full_usa_table

\* One of the three data classes prepared on its own, on a short table:
\* CasesData().return_df(), DeathsData().return_df() or
\* UnitedStatesData().prepare_data_1().
InitPrepare ==
    /\ InitRun
    /\ \E n \in 1..Len(ShortColumns) :
          \E a1 \in Series(n), a2 \in Series(n), opposite \in BOOLEAN :
             \/ /\ pc = "cases.prepare_data_1"
                /\ \E b \in TwoValued(n) :
                      url_cases = short_table(n, a1, a2, b, opposite)
                /\ url_deaths = no_file
                /\ url_usa = no_file
             \/ /\ pc = "deaths.prepare_data_1"
                /\ url_cases = no_file
                /\ url_deaths = short_table(n, a1, a2, step_series(n, MaxVal), opposite)
                /\ url_usa = no_file
             \/ /\ pc = "usa.prepare_data_1"
                /\ url_cases = no_file
                /\ url_deaths = no_file
                /\ url_usa = usa_table(n, a1, a2, opposite)

\* get_data() up to the continent frames: CasesData, CasesContinents,
\* DeathsData and DeathsContinents on four-column tables; the deaths file
\* holds the series of the cases file with the names exchanged.
InitContinents ==
    /\ InitRun
    /\ pc = "cases.prepare_data_1"
    /\ \E a \in TwoValued(Len(ContinentColumns)),
          b \in TwoValued(Len(ContinentColumns)), s \in {0, MaxVal} :
          /\ url_cases = continent_table(a, b, s)
          /\ url_deaths = continent_table(b, a, s)
    /\ url_usa = no_file

\* main(): the whole run on world tables; the deaths file holds the series
\* of the cases file with the three varied names exchanged.
InitWorld ==
    /\ InitRun
    /\ pc = "cases.prepare_data_1"
    /\ \E a \in {0, MaxGrowth}, b \in {0, MaxGrowth}, c \in {0, MaxGrowth} :
          /\ url_cases = world_table(a, b, c)
          /\ url_deaths = world_table(b, c, a)
    /\ url_usa = full_usa_table

\* main(): the whole run on fortnight tables; the deaths file holds the
\* cases file with the early and the late increase exchanged.
InitFortnight ==
    /\ InitRun
    /\ pc = "cases.prepare_data_1"
    /\ \E long \in BOOLEAN, early \in {0, MaxDelta}, late \in {0, MaxDelta},
          dip \in BOOLEAN :
          /\ url_cases = fortnight_table(long, early, late, dip)
          /\ url_deaths = fortnight_table(long, late, early, dip)
    /\ url_usa = full_usa_table

\* main(): the whole run on full tables of which the cases file, the deaths
\* file or both start on 2020-02-01 instead of 2020-01-22, and of which one
\* may lack Belgium.
InitPartial ==
    /\ InitRun
    /\ pc = "cases.prepare_data_1"
    /\ \E g \in {0, MaxGrowth}, kc \in 1..2, kd \in 1..2,
          lacking \in {"neither", "cases", "deaths"} :
          /\ url_cases =
                without(from_column(full_table(g, MaxGrowth, 3), kc),
                        IF lacking = "cases" THEN "Belgium" ELSE "")
          /\ url_deaths =
                without(from_column(full_table(g, MaxGrowth, 2), kd),
                        IF lacking = "deaths" THEN "Belgium" ELSE "")
    /\ url_usa = full_usa_table

\* main(): the whole run on full tables, of which the cases file, the
\* deaths file or the US file may have a label that is no date on its first
\* or on its last date column.
InitMalformed ==
    /\ InitRun
    /\ pc = "cases.prepare_data_1"
    /\ \E g \in {0, MaxGrowth} :
          \/ /\ url_cases = full_table(g, MaxGrowth, 3)
             /\ url_deaths = full_table(g, MaxGrowth, 2)
             /\ url_usa = full_usa_table
          \/ \E l \in MalformedLabels, k \in {1, Len(FullColumns)} :
                \/ /\ url_cases = with_label(full_table(g, MaxGrowth, 3), k, l)
                   /\ url_deaths = full_table(g, MaxGrowth, 2)
                   /\ url_usa = full_usa_table
                \/ /\ url_cases = full_table(g, MaxGrowth, 3)
                   /\ url_deaths = with_label(full_table(g, MaxGrowth, 2), k, l)
                   /\ url_usa = full_usa_table
                \/ /\ url_cases = full_table(g, MaxGrowth, 3)
                   /\ url_deaths = full_table(g, MaxGrowth, 2)
                   /\ url_usa = with_label(full_usa_table, k, l)

\* get_data() up to the continent frames, on tables that hold no, one or two
\* names the resolver does not match; the deaths file holds the series of the
\* cases file with the names exchanged.
InitUnmatched ==
    /\ InitRun
    /\ pc = "cases.prepare_data_1"
    /\ \E a1 \in TwoValued(Len(ShortColumns)), a2 \in TwoValued(Len(ShortColumns)),
          b \in TwoValued(Len(ShortColumns)), k \in 0..Len(UnmatchedNames) :
          /\ url_cases = unmatched_table(a1, a2, b, k)
          /\ url_deaths = unmatched_table(b, a2, a1, k)
    /\ url_usa = no_file

\* The series get_data downloads a file for, in its order.
Downloads == <<"cases", "deaths", "excess_deaths", "vaccine", "usa">>

\* main(): the whole run on full tables, in which any of the files may be
\* out of reach.
InitFetch ==
    /\ InitFrames
    /\ pc = "cases.prepare_data_1"
    /\ unreachable \in SUBSET {Downloads[k] : k \in 1..Len(Downloads)}
    /\ \E g1 \in {0, MaxGrowth}, g2 \in {0, MaxGrowth} :
          /\ url_cases = full_table(g1, g2, 3)
          /\ url_deaths = full_table(g2, g1, 2)
    /\ url_usa = full_usa_table

\* CasesData().return_df() on a region table.
InitRegions ==
    /\ InitRun
    /\ pc = "cases.prepare_data_1"
    /\ \E a1 \in TwoValued(Len(ShortColumns)), a2 \in TwoValued(Len(ShortColumns)),
          b \in TwoValued(Len(ShortColumns)) :
          url_cases = region_table(a1, a2, b)
    /\ url_deaths = no_file
    /\ url_usa = no_file

\* UnitedStatesData().return_df() on a states table in which each state
\* reports nothing, MaxVal or twice MaxVal on the second date.
InitUsa ==
    /\ InitRun
    /\ pc = "usa.prepare_data_1"
    /\ url_cases = no_file
    /\ url_deaths = no_file
    /\ \E v \in [1..4 -> {0, MaxVal, 2 * MaxVal}] : url_usa = states_table(v)

\* CasesData().return_df() on a long table.
InitRolling ==
    /\ InitRun
    /\ pc = "cases.prepare_data_1"
    /\ \E ds \in [1..(Len(LongColumns) - 1) -> {0, MaxDelta}], dip \in BOOLEAN :
          url_cases = long_table(ds, dip)
    /\ url_deaths = no_file
    /\ url_usa = no_file

\* No download raises.
raises_nothing(series) == FALSE

\* Whether download_data raises on a series: pd.read_csv does, on a url it
\* cannot read (urllib.error.URLError), and nothing catches it.
raises_URLError(series) == series \in unreachable

\* Whether prepare_data_1 raises ValueError on a file: pd.to_datetime does,
\* on a date column that holds a label that is no date, which is the case
\* when the file has rows and such a date column; nothing catches it.
raises_ValueError(wide) ==
    /\ wide.rows # <<>>
    /\ \E k \in 1..Len(wide.columns) : ~parses(wide.columns[k])

\* Whether prepare_data_2 raises TypeError on a frame: dividing by a
\* population column that holds text does, and nothing catches it.
raises_TypeError(df) == \E i \in 1..Len(df) : istext(df[i].population)

\* CasesData().return_df() is prepare_data_2, which calls merge_metrics, which
\* calls prepare_data_1, which calls download_data: the run executes the
\* bodies in the opposite order.
CasesData_prepare_data_1 ==
    /\ pc = "cases.prepare_data_1"
    /\ fetched' = Append(fetched, "cases")
    /\ IF raises_URLError("cases")
       THEN pc' = "cases.URLError" /\ UNCHANGED cases_1
       ELSE IF raises_ValueError(url_cases)
       THEN pc' = "cases.ValueError" /\ UNCHANGED cases_1
       ELSE /\ cases_1' = prepare_data_1(url_cases)
            /\ pc' = "cases.merge_metrics"
    /\ UNCHANGED <<url_cases, cases_m, cases, deaths_vars, continent_vars,
                   usa_vars, unreachable, asked, data, written,
                   table_vars>>

CasesData_merge_metrics ==
    /\ pc = "cases.merge_metrics"
    /\ cases_m' = merge_metrics(cases_1)
    /\ pc' = "cases.prepare_data_2"
    /\ asked' = Append(asked, [series |-> "cases",
                             names |-> country_list_of(cases_1)])
    /\ UNCHANGED fetch_vars
    /\ UNCHANGED <<url_cases, cases_1, cases, deaths_vars, continent_vars,
                   usa_vars, data, written, table_vars>>

CasesData_prepare_data_2 ==
    /\ pc = "cases.prepare_data_2"
    /\ IF raises_TypeError(cases_m)
       THEN pc' = "cases.TypeError" /\ UNCHANGED <<cases, data>>
       ELSE /\ pc' = "continent_cases"
            /\ cases' = prepare_data_2(cases_m)
            /\ data' = data \cup {"cases"}
    /\ UNCHANGED <<fetch_vars, asked>>
    /\ UNCHANGED <<url_cases, cases_1, cases_m, deaths_vars, continent_vars,
                   usa_vars, written, table_vars>>

\* The breakdown made on the frame it was given instead of on a copy of it:
\* the rows up to 2020-03-01 leave the derived frame itself.
CasesContinents_prepare_data_in_place ==
    /\ pc = "continent_cases"
    /\ cases' = after_min_date(cases)
    /\ continent_cases' = continents_prepare_data(cases)
    /\ data' = data \cup {"continent_cases"}
    /\ pc' = "deaths.prepare_data_1"
    /\ UNCHANGED <<fetch_vars, asked>>
    /\ UNCHANGED <<url_cases, cases_1, cases_m, deaths_vars, continent_deaths,
                   usa_vars, written, table_vars>>

\* CasesContinents(cases).return_df(): prepare_data works on a copy of the
\* frame it was given.
CasesContinents_prepare_data ==
    /\ pc = "continent_cases"
    /\ continent_cases' = continents_prepare_data(cases)
    /\ data' = data \cup {"continent_cases"}
    /\ pc' = "deaths.prepare_data_1"
    /\ UNCHANGED <<fetch_vars, asked>>
    /\ UNCHANGED <<cases_vars, deaths_vars, continent_deaths, usa_vars,
                   written, table_vars>>

DeathsData_prepare_data_1 ==
    /\ pc = "deaths.prepare_data_1"
    /\ fetched' = Append(fetched, "deaths")
    /\ IF raises_URLError("deaths")
       THEN pc' = "deaths.URLError" /\ UNCHANGED deaths_1
       ELSE IF raises_ValueError(url_deaths)
       THEN pc' = "deaths.ValueError" /\ UNCHANGED deaths_1
       ELSE /\ deaths_1' = as_deaths(prepare_data_1(url_deaths))
            /\ pc' = "deaths.merge_metrics"
    /\ UNCHANGED <<cases_vars, url_deaths, deaths_m, deaths, continent_vars,
                   usa_vars, unreachable, asked, data, written,
                   table_vars>>

DeathsData_merge_metrics ==
    /\ pc = "deaths.merge_metrics"
    /\ deaths_m' = as_deaths(merge_metrics(as_cases(deaths_1)))
    /\ pc' = "deaths.prepare_data_2"
    /\ asked' = Append(asked, [series |-> "deaths",
                             names |-> country_list_of(as_cases(deaths_1))])
    /\ UNCHANGED fetch_vars
    /\ UNCHANGED <<cases_vars, url_deaths, deaths_1, deaths, continent_vars,
                   usa_vars, data, written, table_vars>>

DeathsData_prepare_data_2 ==
    /\ pc = "deaths.prepare_data_2"
    /\ IF raises_TypeError(deaths_m)
       THEN pc' = "deaths.TypeError" /\ UNCHANGED <<deaths, data>>
       ELSE /\ pc' = "continent_deaths"
            /\ deaths' = as_deaths(prepare_data_2(as_cases(deaths_m)))
            /\ data' = data \cup {"deaths"}
    /\ UNCHANGED <<fetch_vars, asked>>
    /\ UNCHANGED <<cases_vars, url_deaths, deaths_1, deaths_m, continent_vars,
                   usa_vars, written, table_vars>>

DeathsContinents_prepare_data ==
    /\ pc = "continent_deaths"
    /\ continent_deaths' = as_deaths(continents_prepare_data(as_cases(deaths)))
    /\ data' = data \cup {"continent_deaths"}
    /\ pc' = "excess_deaths"
    /\ UNCHANGED <<fetch_vars, asked>>
    /\ UNCHANGED <<cases_vars, deaths_vars, continent_cases, usa_vars,
                   written, table_vars>>

\* The series of get_data without the vaccinations.
OtherSeries_excess_only == <<"excess_deaths">>

\* The excess deaths and the vaccinations series of get_data, in its order;
\* their frames are not read by the tables and are not modelled.
OtherSeries == <<"excess_deaths", "vaccine">>

\* The plots main() makes before the tables, in its order.
Plots == <<"plot_lines", "plot_vaccinations", "plot_regions", "plot_maps">>

\* The step after the k-th of a list of steps.
then(steps, k, last) == IF k < Len(steps) THEN steps[k + 1] ELSE last

\* ExcessDeathsData().return_df() and VaccineData().return_df(): each
\* downloads its file first.
get_data_other ==
    \E k \in 1..Len(OtherSeries) :
        /\ pc = OtherSeries[k]
        /\ fetched' = Append(fetched, OtherSeries[k])
        /\ IF raises_URLError(OtherSeries[k])
           THEN pc' = OtherSeries[k] \o ".URLError" /\ UNCHANGED data
           ELSE /\ data' = data \cup {OtherSeries[k]}
                /\ pc' = then(OtherSeries, k, "usa.prepare_data_1")
        /\ UNCHANGED <<cases_vars, deaths_vars, continent_vars, usa_vars,
                       unreachable, asked, written, table_vars>>

UnitedStatesData_prepare_data_1 ==
    /\ pc = "usa.prepare_data_1"
    /\ fetched' = Append(fetched, "usa")
    /\ IF raises_URLError("usa")
       THEN pc' = "usa.URLError" /\ UNCHANGED usa_1
       ELSE IF raises_ValueError(url_usa)
       THEN pc' = "usa.ValueError" /\ UNCHANGED usa_1
       ELSE /\ usa_1' = usa_prepare_data_1(url_usa)
            /\ pc' = "usa.merge_metrics"
    /\ UNCHANGED <<cases_vars, deaths_vars, continent_vars, url_usa, usa_m, usa,
                   unreachable, asked, data, written,
                   table_vars>>

UnitedStatesData_merge_metrics ==
    /\ pc = "usa.merge_metrics"
    /\ usa_m' = usa_merge_metrics(usa_1)
    /\ pc' = "usa.prepare_data_2"
    /\ UNCHANGED <<cases_vars, deaths_vars, continent_vars, url_usa, usa_1, usa,
                   fetch_vars, asked, data, written,
                   table_vars>>

\* prepare_data_2 sorts by date with numpy's quicksort, which leaves the
\* order of the rows of one date open: they stay in the order of the frame
\* or come out in the opposite order.
UnitedStatesData_prepare_data_2 ==
    /\ pc = "usa.prepare_data_2"
    /\ \E opposite \in BOOLEAN : usa' = usa_prepare_data_2(usa_m, opposite)
    /\ data' = data \cup {"usa"}
    /\ pc' = Plots[1]
    /\ UNCHANGED <<cases_vars, deaths_vars, continent_vars, url_usa, usa_1, usa_m,
                   fetch_vars, asked, written, table_vars>>

main_plot ==
    \E k \in 1..Len(Plots) :
        /\ pc = Plots[k]
        /\ written' = written \cup {Plots[k]}
        /\ pc' = then(Plots, k, "tables.summary")
        /\ UNCHANGED <<fetch_vars, asked>>
    /\ UNCHANGED <<cases_vars, deaths_vars, continent_vars, usa_vars, data,
                       table_vars>>

\* covid_tables.plot, first part: the latest date for the titles (strftime of
\* NaT, the maximum of no dates, raises ValueError) and the eight top-10
\* tables.
tables_SummaryTables ==
    /\ pc = "tables.summary"
    /\ IF deaths = <<>>
       THEN pc' = "tables.ValueError" /\ UNCHANGED <<summary_tables, written>>
       ELSE /\ summary_tables' =
                  [f \in {SummaryTablesList[k].file : k \in 1..Len(SummaryTablesList)} |->
                      LET t == SummaryTablesList[
                                   CHOOSE k \in 1..Len(SummaryTablesList) :
                                       SummaryTablesList[k].file = f]
                      IN  SummaryTables_create_df(
                              IF t.df = "deaths" THEN deaths ELSE cases,
                              t.var_1, t.var_2)]
            /\ written' = written \cup {"summary_tables"}
            /\ pc' = "tables.two_week"
    /\ UNCHANGED <<fetch_vars, asked>>
    /\ UNCHANGED <<cases_vars, deaths_vars, continent_vars, usa_vars, data,
                   two_week_tables, recovered_tables>>

\* covid_tables.plot, second part: the two 14-day tables.  Dividing by a
\* population the resolver gives as text raises TypeError.
tables_LastTwoWeeks ==
    /\ pc = "tables.two_week"
    /\ IF \E i \in 1..Len(countries) : istext(population_of(countries[i]))
       THEN pc' = "tables.TypeError" /\ UNCHANGED <<two_week_tables, written>>
       ELSE /\ two_week_tables' =
                  ("14_day_deaths_per_100000" :> LastTwoWeeks_create_df(deaths))
                  @@ ("14_day_cases_per_100000" :> LastTwoWeeks_create_df(cases))
            /\ written' = written \cup {"two_week_tables"}
            /\ pc' = "tables.recovered"
    /\ UNCHANGED <<fetch_vars, asked>>
    /\ UNCHANGED <<cases_vars, deaths_vars, continent_vars, usa_vars, data,
                   summary_tables, recovered_tables>>

\* covid_tables.plot, third part: the four case-fatality tables, one after
\* the other; the first that raises ValueError ends the run, and the tables
\* before it stay written.
tables_Recovered ==
    /\ pc = "tables.recovered"
    /\ LET today == Max({deaths[i].date : i \in 1..Len(deaths)})
           d(k)  == IF RecoveredTables[k].oecd THEN oecd(deaths) ELSE deaths
           c(k)  == IF RecoveredTables[k].oecd THEN oecd(cases) ELSE cases
           raises(k) ==
               \/ date_id_raises(Recovered_deaths(d(k), RecoveredTables[k].start_date, today))
               \/ date_id_raises(Recovered_cases(c(k), RecoveredTables[k].start_date, today))
           bad   == {k \in 1..Len(RecoveredTables) : raises(k)}
           n_ok  == IF bad = {} THEN Len(RecoveredTables) ELSE Min(bad) - 1
       IN  /\ recovered_tables' =
                 [f \in {RecoveredTables[k].file : k \in 1..n_ok} |->
                     LET k == CHOOSE j \in 1..n_ok : RecoveredTables[j].file = f
                     IN  Recovered_create_df(d(k), c(k),
                                             RecoveredTables[k].start_date, today)]
           /\ written' = IF n_ok > 0 THEN written \cup {"recovered_tables"} ELSE written
           /\ pc' = IF bad = {} THEN "done" ELSE "tables.ValueError"
    /\ UNCHANGED <<fetch_vars, asked>>
    /\ UNCHANGED <<cases_vars, deaths_vars, continent_vars, usa_vars, data,
                   summary_tables, two_week_tables>>

NextCases ==
    \/ CasesData_prepare_data_1
    \/ CasesData_merge_metrics
    \/ CasesData_prepare_data_2

NextDeaths ==
    \/ DeathsData_prepare_data_1
    \/ DeathsData_merge_metrics
    \/ DeathsData_prepare_data_2

NextUsa ==
    \/ UnitedStatesData_prepare_data_1
    \/ UnitedStatesData_merge_metrics
    \/ UnitedStatesData_prepare_data_2

NextPrepare ==
    \/ NextCases
    \/ NextDeaths
    \/ UnitedStatesData_prepare_data_1

NextContinents ==
    \/ NextCases
    \/ CasesContinents_prepare_data
    \/ NextDeaths
    \/ DeathsContinents_prepare_data

Next ==
    \/ NextCases
    \/ CasesContinents_prepare_data
    \/ NextDeaths
    \/ DeathsContinents_prepare_data
    \/ get_data_other
    \/ NextUsa
    \/ main_plot
    \/ tables_SummaryTables
    \/ tables_LastTwoWeeks
    \/ tables_Recovered

Spec == Init /\ [][Next]_vars

SpecPrepare == InitPrepare /\ [][NextPrepare]_vars

SpecRolling == InitRolling /\ [][NextCases]_vars

SpecContinents == InitContinents /\ [][NextContinents]_vars

SpecWorld == InitWorld /\ [][Next]_vars

SpecFortnight == InitFortnight /\ [][Next]_vars

SpecPartial == InitPartial /\ [][Next]_vars

SpecMalformed == InitMalformed /\ [][Next]_vars

SpecUnmatched == InitUnmatched /\ [][NextContinents]_vars

SpecFetch == InitFetch /\ [][Next]_vars

SpecRegions == InitRegions /\ [][NextCases]_vars

SpecUsa == InitUsa /\ [][NextUsa]_vars

\* ------------------------------------------------- reading the raw snapshot

\* The names, dates and cells of a raw file, read off the wide table itself.
NamesOf(wide) == {wide.rows[r].country : r \in 1..Len(wide.rows)}

DatesOf(wide) == {to_datetime(wide.columns[k]) : k \in 1..Len(wide.columns)}

\* The sum of the cells of a country's rows in the column of date d.
TotalOf(wide, c, d) ==
    LET k == CHOOSE j \in 1..Len(wide.columns) : to_datetime(wide.columns[j]) = d
    IN  SumOver([r \in 1..Len(wide.rows) |-> wide.rows[r].vals[k]],
                {r \in 1..Len(wide.rows) : wide.rows[r].country = c})

RawCountries == NamesOf(url_cases)

RawDates == DatesOf(url_cases)

RawTotal(c, d) == TotalOf(url_cases, c, d)

\* The rows of a frame for one country and date, as indices.
RowsOf(df, c, d) == {i \in 1..Len(df) : df[i].country = c /\ df[i].date = d}

\* The rows of a frame for one country.
RowsOfCountry(df, c) == {i \in 1..Len(df) : df[i].country = c}

\* The steps of main() in the order it takes them.
Steps ==
    <<"cases.prepare_data_1", "cases.merge_metrics", "cases.prepare_data_2",
      "continent_cases", "deaths.prepare_data_1", "deaths.merge_metrics",
      "deaths.prepare_data_2", "continent_deaths", "excess_deaths", "vaccine",
      "usa.prepare_data_1", "usa.merge_metrics", "usa.prepare_data_2",
      "plot_lines",
      "plot_vaccinations", "plot_regions", "plot_maps", "tables.summary",
      "tables.two_week", "tables.recovered", "done">>

\* The step the run is at; a run that ended on an error stays at a step that
\* raises it.
StepAt ==
    CASE pc \in {"cases.ValueError", "cases.URLError"} -> "cases.prepare_data_1"
      [] pc \in {"deaths.ValueError", "deaths.URLError"} -> "deaths.prepare_data_1"
      [] pc \in {"usa.ValueError", "usa.URLError"} -> "usa.prepare_data_1"
      [] pc = "excess_deaths.URLError" -> "excess_deaths"
      [] pc = "vaccine.URLError" -> "vaccine"
      [] pc = "cases.TypeError" -> "cases.prepare_data_2"
      [] pc = "deaths.TypeError" -> "deaths.prepare_data_2"
      [] pc \in {"tables.ValueError", "tables.TypeError"} -> "tables.summary"
      [] OTHER -> pc

Position(step) == CHOOSE k \in 1..Len(Steps) : Steps[k] = step

\* Whether the run has left a step behind.
Past(step) == Position(StepAt) > Position(step)

cases_1_returned == Past("cases.prepare_data_1")

cases_returned == "cases" \in data

deaths_1_returned == Past("deaths.prepare_data_1")

usa_1_returned == Past("usa.prepare_data_1")

\* --------------------------------------------------------------- properties

\* Whether a frame of rows [name, date, value] holds, for every name and
\* date of a raw file, exactly one row, valued the sum of the cells of all the
\* raw rows of that name in the column of that date.
Aggregated(names, dates, total(_, _), frame) ==
    \A c \in names, d \in dates :
        LET rows == {i \in 1..Len(frame) : frame[i].name = c /\ frame[i].date = d}
        IN  /\ Cardinality(rows) = 1
            /\ \A i \in rows : frame[i].value = total(c, d)

\* The sum of the cells of a state's rows of the US file in the column of
\* date d.
StateTotal(c, d) ==
    LET k == CHOOSE j \in 1..Len(url_usa.columns) :
                 to_datetime(url_usa.columns[j]) = d
    IN  SumOver([r \in 1..Len(url_usa.rows) |-> url_usa.rows[r].vals[k]],
                {r \in 1..Len(url_usa.rows) : url_usa.rows[r].Province_State = c})

DeathsTotal(c, d) == TotalOf(url_deaths, c, d)

\* C1: once prepare_data_1 has returned (of CasesData, of DeathsData or of
\* UnitedStatesData), every name and date of the raw file has exactly one row
\* in its frame, and the value of that row is the sum of the cells of all the
\* raw rows (provinces, counties) of that name for that date.
C1_AggregationCorrect ==
    /\ cases_1_returned =>
          Aggregated(RawCountries, RawDates, RawTotal,
              [i \in 1..Len(cases_1) |->
                  [name |-> cases_1[i].country, date |-> cases_1[i].date,
                   value |-> cases_1[i].cases]])
    /\ deaths_1_returned =>
          Aggregated(NamesOf(url_deaths), DatesOf(url_deaths), DeathsTotal,
              [i \in 1..Len(deaths_1) |->
                  [name |-> deaths_1[i].country, date |-> deaths_1[i].date,
                   value |-> deaths_1[i].deaths]])
    /\ usa_1_returned =>
          Aggregated({url_usa.rows[r].Province_State : r \in 1..Len(url_usa.rows)},
              DatesOf(url_usa), StateTotal,
              [i \in 1..Len(usa_1) |->
                  [name |-> usa_1[i].state, date |-> usa_1[i].date,
                   value |-> usa_1[i].deaths]])

\* A country of two raw rows whose merged value exceeds what one cell holds.
C1_Witness ==
    /\ cases_1_returned
    /\ \E i \in 1..Len(cases_1) :
          /\ cases_1[i].country = "Australia"
          /\ cases_1[i].cases > MaxVal

\* C2: the normalized frame, the enriched frame and the derived frame each
\* hold at most one row per (country, date).
C2_UniquePerEntityDate ==
    \A df \in {cases_1, cases_m, cases} :
        \A i, j \in 1..Len(df) :
            (df[i].country = df[j].country /\ df[i].date = df[j].date) => i = j

\* The derived frame holds rows of a country the raw table gives in two rows.
C2_Witness ==
    /\ cases_returned
    /\ Cardinality({r \in 1..Len(url_cases.rows) :
                       url_cases.rows[r].country = "Australia"}) = 2
    /\ RowsOfCountry(cases, "Australia") # {}
    /\ RowsOfCountry(cases_m, "Australia") # {}

\* C3: every row of the derived frame has a daily that is a number and is not
\* negative.
C3_DailyNonNegative ==
    \A i \in 1..Len(cases) : ~isna(cases[i].daily) /\ cases[i].daily.n >= 0

\* A derived row on a date where the country's merged cumulative value went
\* down.
C3_Witness ==
    /\ cases_returned
    /\ \E i \in 1..Len(cases) : \E d \in RawDates :
          /\ d < cases[i].date
          /\ RawTotal(cases[i].country, d) > RawTotal(cases[i].country, cases[i].date)
          /\ \A e \in RawDates : ~(d < e /\ e < cases[i].date)
          /\ cases[i].daily = RInt(0)

\* C4: the daily of a derived row, on any date but the country's first, is
\* max(0, cumulative[d] - cumulative[d_prev]) with d_prev the latest earlier
\* date of the same country, whatever the order of the rows and columns of the
\* raw table.
C4_DailyIsClampedDifference ==
    \A i \in 1..Len(cases) :
        LET c       == cases[i].country
            d       == cases[i].date
            earlier == {e \in RawDates : e < d}
        IN  earlier # {} =>
                LET delta == RawTotal(c, d) - RawTotal(c, Max(earlier))
                IN  cases[i].daily = RInt(IF delta < 0 THEN 0 ELSE delta)

\* A raw table in the opposite order whose third date differs from the first
\* by another amount than from the second, with a positive daily derived.
C4_Witness ==
    /\ cases_returned
    /\ Len(url_cases.columns) = 3
    /\ to_datetime(url_cases.columns[1]) > to_datetime(url_cases.columns[3])
    /\ \E i \in 1..Len(cases) :
          /\ cases[i].date = Max(RawDates)
          /\ cases[i].daily.n > 0
          /\ \E d \in RawDates :
                /\ \A e \in RawDates : d <= e
                /\ RawTotal(cases[i].country, d) #
                      RawTotal(cases[i].country, Max(RawDates \ {cases[i].date}))

\* Whether the float cell x is the fraction num / den (den > 0).
EqFrac(x, num, den) == x.d > 0 /\ x.n * den = num * x.d

\* C7: in every derived row the population is the one the resolver gives for
\* the row's own country, cases_per_million = cases / population * 1,000,000,
\* daily_million = daily / population * 1,000,000 with the row's clamped
\* daily, and 7_day_average_per_million = 7_day_average / population *
\* 1,000,000; daily_million is never negative.
C7_PerCapita ==
    \A i \in 1..Len(cases) :
        LET r   == cases[i]
            pop == reference(r.country).population
        IN  /\ pop.d = 1 /\ pop.n > 0
            /\ r.population = pop
            /\ ~isna(r.daily) /\ r.daily.n >= 0
            /\ EqFrac(r.cases_per_million, r.cases * 1000000, pop.n)
            /\ EqFrac(r.daily_million, r.daily.n * 1000000, r.daily.d * pop.n)
            /\ EqFrac(r.seven_day_average_per_million,
                      r.seven_day_average.n * 1000000,
                      r.seven_day_average.d * pop.n)
            /\ r.daily_million.n >= 0

\* Derived rows of two countries of different population, one with a positive
\* daily and one with a daily clamped to 0.
C7_Witness ==
    /\ cases_returned
    /\ \E i, j \in 1..Len(cases) :
          /\ cases[i].country = "Belgium" /\ cases[i].daily.n > 0
          /\ cases[j].country = "Australia" /\ cases[j].cases > 0
          /\ cases[j].daily = RInt(0)
          /\ \E e \in RawDates :
                /\ e < cases[j].date
                /\ RawTotal("Australia", e) > cases[j].cases

\* C8: a country the resolver matches without a population has no row in the
\* derived frame, and preparing the data raises no error.
C8_NullPopulationDropped ==
    /\ pc # "cases.TypeError"
    /\ \A i \in 1..Len(cases_m) :
          isna(cases_m[i].population) =>
              RowsOfCountry(cases, cases_m[i].country) = {}

\* prepare_data_2 has returned rows, and the enriched frame it read held rows
\* of a matched country without population.
C8_Witness ==
    /\ cases_returned
    /\ cases # <<>>
    /\ \E i \in 1..Len(cases_m) :
          /\ reference(cases_m[i].country).iso3 # "no match"
          /\ reference(cases_m[i].country).population = empty_cell
          /\ cases_m[i].cases > 0

\* C10: the derived frame holds no row of a country on that country's earliest
\* date, so a country with n observations has at most n - 1 derived rows (none
\* when n = 1).
C10_FirstDateDropped ==
    cases_returned =>
        \A c \in RawCountries :
            LET obs == {cases_1[i].date : i \in RowsOfCountry(cases_1, c)}
            IN  /\ obs = RawDates
                /\ RowsOf(cases, c, Min(obs)) = {}
                /\ Cardinality(RowsOfCountry(cases, c)) <= Cardinality(obs) - 1

\* A country with three observations, a positive count on the first, and its
\* two later dates derived.
C10_Witness ==
    /\ cases_returned
    /\ Cardinality(RawDates) = 3
    /\ RawTotal("Belgium", Min(RawDates)) > 0
    /\ Cardinality(RowsOfCountry(cases, "Belgium")) = 2

\* The rows of cases[i]'s country dated no later than cases[i].
UpTo(i) == {j \in RowsOfCountry(cases, cases[i].country) : cases[j].date <= cases[i].date}

\* The w latest of a set of derived rows of one country.
Latest(S, w) == {j \in S : Cardinality({l \in S : cases[l].date > cases[j].date}) < w}

\* C5: 7_day_average of the k-th derived row of a country is the mean of the
\* daily of that row and of the rows of the same country before it, min(k, 7)
\* values in all.
C5_RollingMean ==
    \A i \in 1..Len(cases) :
        LET k   == Cardinality(UpTo(i))
            w   == IF k < 7 THEN k ELSE 7
            win == Latest(UpTo(i), w)
        IN  /\ Cardinality(win) = w
            /\ \A j \in win : cases[j].daily.d = 1
            /\ EqFrac(cases[i].seven_day_average,
                      SumOver([j \in 1..Len(cases) |-> cases[j].daily.n], win), w)

\* An eighth derived row whose window leaves out a positive first daily, in a
\* series with a daily clamped to 0.
C5_Witness ==
    /\ cases_returned
    /\ \E i \in 1..Len(cases) :
          /\ cases[i].country = "Australia"
          /\ Cardinality(UpTo(i)) = 8
          /\ \E j \in UpTo(i) \ Latest(UpTo(i), 7) : cases[j].daily.n > 0
          /\ \E j \in Latest(UpTo(i), 7) :
                /\ cases[j].daily = RInt(0)
                /\ \E l \in UpTo(j) : cases[l].cases > cases[j].cases
          /\ cases[i].seven_day_average.n > 0

\* C6: when all the derived rows of a country have the same daily v, each of
\* them has 7_day_average = v.
C6_ConstantSeries ==
    \A c \in RawCountries :
        (\A i, j \in RowsOfCountry(cases, c) : cases[i].daily = cases[j].daily)
            => \A i \in RowsOfCountry(cases, c) :
                  cases[i].seven_day_average = cases[i].daily

\* Eight derived rows of one country, all with the same positive daily.
C6_Witness ==
    /\ cases_returned
    /\ Cardinality(RowsOfCountry(cases, "Australia")) = 8
    /\ \A i \in RowsOfCountry(cases, "Australia") : cases[i].daily = RInt(1)

\* Whether the resolver reports a name as unmatched.
Unmatched(name) == reference(name).iso3 = "no match"

\* The names with rows in a frame.
CountriesIn(df) == {df[i].country : i \in 1..Len(df)}

\* The names with rows in any of the tables of a group.
CountriesInTables(tables) ==
    UNION {CountriesIn(tables[f]) : f \in DOMAIN tables}

\* The raw increase of a country on date d over the date before, not below 0.
RawDaily(wide, c, d) ==
    LET earlier == {e \in DatesOf(wide) : e < d}
        delta   == TotalOf(wide, c, d) - TotalOf(wide, c, Max(earlier))
    IN  IF delta < 0 THEN 0 ELSE delta

\* Whether the rows of a continent frame are the sums, and the shares of the
\* sums, over the names of the raw file that the resolver matches with a
\* population: total is the frame's column of cumulative sums.
ContinentSumsOverMatched(wide, frame, total) ==
    \A j \in 1..Len(frame) :
        LET d  == frame[j].date
            in_continent == {c \in NamesOf(wide) :
                                /\ ~Unmatched(c)
                                /\ reference(c).population.d = 1
                                /\ reference(c).continent = frame[j].continent}
            anywhere == {c \in NamesOf(wide) :
                            ~Unmatched(c) /\ reference(c).population.d = 1}
            sum(S)   == SumOver([c \in S |-> TotalOf(wide, c, d)], S)
            daily(S) == SumOver([c \in S |-> RawDaily(wide, c, d)], S)
        IN  /\ frame[j].continent # "no match"
            /\ total[j] = sum(in_continent)
            /\ frame[j].daily = RInt(daily(in_continent))
            /\ sum(anywhere) # 0 =>
                   EqFrac(frame[j].pct_total, 100 * total[j], sum(anywhere))
            /\ daily(anywhere) # 0 =>
                   EqFrac(frame[j].pct_daily, 100 * frame[j].daily.n, daily(anywhere))

\* C9: a name of the cases file or of the deaths file that the resolver
\* reports as unmatched has no row in the enriched or the derived cases and
\* deaths frames, no row in a top-10 table, in a 14-day table or in a
\* case-fatality table, and no part in the continent frames: every continent
\* sum and share is taken over the matched names alone.
C9_UnmatchedExcluded ==
    /\ \A name \in NamesOf(url_cases) \cup NamesOf(url_deaths) :
          Unmatched(name) =>
              /\ name \notin CountriesIn(cases_m) \cup CountriesIn(cases)
              /\ name \notin CountriesIn(deaths_m) \cup CountriesIn(deaths)
              /\ name \notin CountriesInTables(summary_tables)
              /\ name \notin CountriesInTables(two_week_tables)
              /\ name \notin CountriesInTables(recovered_tables)
    /\ ContinentSumsOverMatched(url_cases, continent_cases,
           [j \in 1..Len(continent_cases) |-> continent_cases[j].cases])
    /\ ContinentSumsOverMatched(url_deaths, continent_deaths,
           [j \in 1..Len(continent_deaths) |-> continent_deaths[j].deaths])

\* The run is over with every table written, on files where an unmatched
\* name reports cases and deaths on the latest date.
C9_Witness ==
    /\ pc = "done"
    /\ \E name \in NamesOf(url_cases) \cap NamesOf(url_deaths) :
          /\ Unmatched(name)
          /\ TotalOf(url_cases, name, Max(DatesOf(url_cases))) > 0
          /\ TotalOf(url_deaths, name, Max(DatesOf(url_deaths))) > 0
    /\ continent_cases # <<>> /\ continent_deaths # <<>>
    /\ Cardinality(DOMAIN summary_tables) = 8
    /\ Cardinality(DOMAIN two_week_tables) = 2
    /\ Cardinality(DOMAIN recovered_tables) = 4
    /\ \A f \in DOMAIN summary_tables : summary_tables[f] # <<>>
    /\ \A f \in DOMAIN recovered_tables : recovered_tables[f] # <<>>

\* C11: every row of the enriched frame of a matched country with a
\* population, on any date but that country's first, has a row in the derived
\* frame, whatever its continent, OECD, EU_EEA, flag, latitude and longitude
\* hold.
C11_RetainedWhateverMetadata ==
    cases_returned =>
        \A i \in 1..Len(cases_m) :
            LET c     == cases_m[i].country
                first == Min({cases_m[j].date : j \in RowsOfCountry(cases_m, c)})
            IN  (~isna(cases_m[i].population) /\ cases_m[i].date # first)
                    => RowsOf(cases, c, cases_m[i].date) # {}

\* The rows dropna removes are those on a country's first date and those
\* with NaN in a column, metadata included: an enriched row has a derived row
\* exactly when it is on a later date and none of its metadata is missing.
C11_DroppedOnAnyNaN ==
    cases_returned =>
        \A i \in 1..Len(cases_m) :
            LET c     == cases_m[i].country
                first == Min({cases_m[j].date : j \in RowsOfCountry(cases_m, c)})
                whole == \A f \in {"iso3", "OECD", "EU_EEA", "continent", "flag",
                                   "latitude", "longitude"} : cases_m[i][f] # nan_str
            IN  RowsOf(cases, c, cases_m[i].date) # {}
                    <=> /\ ~isna(cases_m[i].population)
                        /\ cases_m[i].date # first
                        /\ whole

\* prepare_data_2 has returned rows, and the enriched frame held a row after
\* the first date of a country with a population and no coordinates.
C11_Witness ==
    /\ cases_returned
    /\ cases # <<>>
    /\ \E i, j \in 1..Len(cases_m) :
          /\ cases_m[i].country = cases_m[j].country
          /\ cases_m[j].date < cases_m[i].date
          /\ ~isna(cases_m[i].population)
          /\ cases_m[i].latitude = nan_str
          /\ cases_m[i].cases > 0

\* The dates with rows in a continent frame.
DatesIn(frame) == {frame[j].date : j \in 1..Len(frame)}

\* The rows of a continent frame on one date, as indices.
OnDate(frame, d) == {j \in 1..Len(frame) : frame[j].date = d}

\* Whether, on every date of a continent frame with a sum of the cumulative
\* values over the continents that is not zero, the shares of it add up to
\* 100, and likewise for the daily values: total is the frame's column of
\* cumulative sums.
SharesSumTo100(frame, total) ==
    \A d \in DatesIn(frame) :
        LET rows == OnDate(frame, d)
        IN  /\ SumOver(total, rows) # 0 =>
                   SumCells([j \in 1..Len(frame) |-> frame[j].pct_total], rows)
                       = RInt(100)
            /\ SumCells([j \in 1..Len(frame) |-> frame[j].daily], rows) # RInt(0) =>
                   SumCells([j \in 1..Len(frame) |-> frame[j].pct_daily], rows)
                       = RInt(100)

\* C12: on every date of the continent frame of the cases and of the deaths
\* whose sum of cumulative values over the continents is not zero, the
\* continents' shares of that sum add up to 100; and on every date whose sum of
\* daily values is not zero, the shares of the daily sum add up to 100.
C12_SharesSumTo100 ==
    /\ SharesSumTo100(continent_cases,
           [j \in 1..Len(continent_cases) |-> continent_cases[j].cases])
    /\ SharesSumTo100(continent_deaths,
           [j \in 1..Len(continent_deaths) |-> continent_deaths[j].deaths])

\* A date of the continent frame of the cases on which two continents both
\* have a share of the total and of the daily sum that is not zero.
C12_Witness ==
    \E i, j \in 1..Len(continent_cases) :
        /\ continent_cases[i].date = continent_cases[j].date
        /\ continent_cases[i].continent # continent_cases[j].continent
        /\ \A k \in {i, j} :
              /\ continent_cases[k].pct_total.d > 0
              /\ continent_cases[k].pct_total.n > 0
              /\ continent_cases[k].pct_daily.d > 0
              /\ continent_cases[k].pct_daily.n > 0

\* Whether a float cell is a number: not NaN, not an infinity.
isnumber(x) == x.d > 0

\* Whether, on every date of a continent frame whose sum of cumulative values
\* (of daily values) over the continents is zero, every share of it satisfies
\* ok: total is the frame's column of cumulative sums.
ZeroTotalShares(frame, total, ok(_)) ==
    \A j \in 1..Len(frame) :
        LET rows == OnDate(frame, frame[j].date)
        IN  /\ SumOver(total, rows) = 0 => ok(frame[j].pct_total)
            /\ SumCells([k \in 1..Len(frame) |-> frame[k].daily], rows) = RInt(0)
                   => ok(frame[j].pct_daily)

\* C13: on a date of a continent frame whose sum of daily values, or of
\* cumulative values, over the continents is zero, the share of every
\* continent is a number (a fallback such as 0), not NaN.
C13_ZeroTotalFallback ==
    /\ ZeroTotalShares(continent_cases,
           [j \in 1..Len(continent_cases) |-> continent_cases[j].cases], isnumber)
    /\ ZeroTotalShares(continent_deaths,
           [j \in 1..Len(continent_deaths) |-> continent_deaths[j].deaths], isnumber)

\* What prepare_data does on such a date: it raises nothing, and every share
\* of a sum that is zero is NaN, 0 / 0 in floats.
C13_ZeroTotalIsNaN ==
    /\ ZeroTotalShares(continent_cases,
           [j \in 1..Len(continent_cases) |-> continent_cases[j].cases], isna)
    /\ ZeroTotalShares(continent_deaths,
           [j \in 1..Len(continent_deaths) |-> continent_deaths[j].deaths], isna)

\* A continent frame of the cases with a date on which no continent reports
\* a daily value although the cumulative sum of the date is not zero, and a
\* date on which the cumulative sum is zero.
C13_Witness ==
    /\ \E j \in 1..Len(continent_cases) :
          /\ continent_cases[j].cases > 0
          /\ \A k \in OnDate(continent_cases, continent_cases[j].date) :
                continent_cases[k].daily = RInt(0)
    /\ \E j \in 1..Len(continent_cases) :
          \A k \in OnDate(continent_cases, continent_cases[j].date) :
              continent_cases[k].cases = 0

\* Whether a continent frame holds, for every continent and date of a
\* derived frame, one row when the date is after 2020-03-01 and none
\* otherwise, that row holding the sums of the cumulative and of the daily
\* values of the derived rows of the continent on the date, and holds no other
\* row: value and total are the columns of cumulative values of the derived
\* frame and of the continent frame.
OneRowPerContinentDate(df, value, frame, total) ==
    LET names == {df[i].continent : i \in 1..Len(df)}
                     \cup {frame[j].continent : j \in 1..Len(frame)}
        dates == {df[i].date : i \in 1..Len(df)} \cup DatesIn(frame)
    IN  \A k \in names, d \in dates :
            LET src  == {i \in 1..Len(df) : df[i].continent = k /\ df[i].date = d}
                rows == {j \in 1..Len(frame) :
                            frame[j].continent = k /\ frame[j].date = d}
            IN  IF src # {} /\ d > to_datetime(Label(3, 1, 20))
                THEN /\ Cardinality(rows) = 1
                     /\ \A j \in rows :
                           /\ total[j] = SumOver(value, src)
                           /\ frame[j].daily =
                                  SumCells([i \in 1..Len(df) |-> df[i].daily], src)
                ELSE rows = {}

\* C14: once CasesContinents (DeathsContinents) has prepared its frame, the
\* frame holds exactly one row per continent and date after 2020-03-01 of the
\* derived frame, none dated 2020-03-01 or earlier, and the cumulative value
\* and the daily of each row are the sums of those of the derived rows of that
\* continent on that date.
C14_OneRowPerContinentDate ==
    /\ "continent_cases" \in data =>
          OneRowPerContinentDate(cases, [i \in 1..Len(cases) |-> cases[i].cases],
              continent_cases,
              [j \in 1..Len(continent_cases) |-> continent_cases[j].cases])
    /\ "continent_deaths" \in data =>
          OneRowPerContinentDate(deaths, [i \in 1..Len(deaths) |-> deaths[i].deaths],
              continent_deaths,
              [j \in 1..Len(continent_deaths) |-> continent_deaths[j].deaths])

\* The continent frame of the cases is prepared from a derived frame that
\* holds rows dated 2020-03-01 with cases, and two countries of one continent
\* with cases and a daily on a later date.
C14_Witness ==
    /\ "continent_cases" \in data
    /\ \E i \in 1..Len(cases) :
          cases[i].date = to_datetime(Label(3, 1, 20)) /\ cases[i].cases > 0
    /\ \E i, j \in 1..Len(cases) :
          /\ cases[i].country # cases[j].country
          /\ cases[i].continent = cases[j].continent
          /\ cases[i].date = cases[j].date
          /\ cases[i].date > to_datetime(Label(3, 1, 20))
          /\ cases[i].daily.n > 0 /\ cases[j].daily.n > 0
          /\ \E k \in 1..Len(continent_cases) :
                /\ continent_cases[k].continent = cases[i].continent
                /\ continent_cases[k].date = cases[i].date

\* x <= y on float cells that are numbers.
leq(x, y) == x.n * y.d <= y.n * x.d

\* Whether table is the top-10 view of a derived frame by the column var_1:
\* one row per name, each of a name with a row on the frame's latest date and
\* showing the figures of that row; min(10, names on that date) rows; the
\* sort metric never increasing down the table; no name of that date left out
\* with a metric above one in the table; ranks 1, 2, ... in that order.
TopTenOf(df, var_1, var_2, table) ==
    LET latest == Max({df[i].date : i \in 1..Len(df)})
        pool   == {i \in 1..Len(df) : df[i].date = latest}
        row(k) == CHOOSE i \in pool : df[i].country = table[k].country
        metric(i) == cell(df[i], var_1)
        shown  == {table[k].country : k \in 1..Len(table)}
    IN  /\ Len(table) = (IF Cardinality(pool) < 10 THEN Cardinality(pool) ELSE 10)
        /\ \A k \in 1..Len(table) :
              /\ Cardinality({i \in pool : df[i].country = table[k].country}) = 1
              /\ table[k].var_1 = str_round_2(metric(row(k)))
              /\ table[k].var_2 = str_round_2(cell(df[row(k)], var_2))
              /\ table[k].rank = k
              /\ \A l \in 1..Len(table) : table[l].country = table[k].country => l = k
              /\ k < Len(table) => leq(metric(row(k + 1)), metric(row(k)))
              /\ \A i \in pool :
                    df[i].country \notin shown => leq(metric(i), metric(row(k)))

\* C15: each of the eight top-10 tables written holds only rows of the latest
\* date of the frame it is made from, min(10, number of countries with a row
\* on that date) of them, in the order of a sort metric that never increases;
\* every country of that date left out has a metric no greater than that of
\* every country in the table; and the ranks are 1..n in that order.
C15_TopTen ==
    "summary_tables" \in written =>
        \A k \in 1..Len(SummaryTablesList) :
            LET t == SummaryTablesList[k]
            IN  TopTenOf(IF t.df = "deaths" THEN deaths ELSE cases,
                         t.var_1, t.var_2, summary_tables[t.file])

\* The tables are written from frames with rows on more than one date and
\* twelve countries on the latest: the table of total cases holds ten rows
\* and leaves out two countries, one of them with as many cases as the last
\* country in the table, and the table of cases per million leaves out a
\* country that the table of total cases holds.
C15_Witness ==
    /\ "summary_tables" \in written
    /\ Cardinality({cases[i].date : i \in 1..Len(cases)}) > 1
    /\ LET latest == Max({cases[i].date : i \in 1..Len(cases)})
           pool   == {i \in 1..Len(cases) : cases[i].date = latest}
           total  == summary_tables["total_cases"]
           shown(table) == {table[k].country : k \in 1..Len(table)}
       IN  /\ Cardinality(pool) = 12
           /\ Len(total) = 10
           /\ \E i, j \in pool :
                 /\ cases[i].country \notin shown(total)
                 /\ cases[j].country = total[10].country
                 /\ cases[i].cases = cases[j].cases
           /\ shown(total) # shown(summary_tables["total_cases_per_million"])

\* The 14 latest rows of a country in a derived frame (all of them when it
\* has fewer), as indices.
RecentRows(df, c) ==
    {i \in RowsOfCountry(df, c) :
        Cardinality({j \in RowsOfCountry(df, c) : df[j].date > df[i].date}) < 14}

\* The sum of the daily of those rows over the population the resolver gives
\* for the country, times 100,000.
TrailingFigure(df, c) ==
    Rat(SumOver([i \in 1..Len(df) |-> df[i].daily.n], RecentRows(df, c)) * 100000,
        reference(c).population.n)

\* Whether every row of a 14-day table holds f of the trailing figure of its
\* country in the derived frame the table is made from.
TrailingFigures(df, table, f(_)) ==
    /\ \A i \in 1..Len(df) : df[i].daily.d = 1 /\ df[i].daily.n >= 0
    /\ \A k \in 1..Len(table) :
          table[k].fourteen_day = f(TrailingFigure(df, table[k].country))

\* The figure as it is.
exact(x) == x

\* The frames the two 14-day tables are made from.
TwoWeekFrame(file) == IF file = "14_day_deaths_per_100000" THEN deaths ELSE cases

\* C16: the figure of a country in a 14-day table is the sum of the clamped
\* daily of the 14 latest derived rows of the country (of all its rows when it
\* has fewer), divided by its population and multiplied by 100,000.
C16_TrailingWindow ==
    \A file \in DOMAIN two_week_tables :
        TrailingFigures(TwoWeekFrame(file), two_week_tables[file], exact)

\* C16, with the rounding two_weeks applies: the figure of a country in a
\* 14-day table is that sum, divided by the population and multiplied by
\* 100,000, rounded to 3 decimals.
C16_TrailingWindowRounded ==
    \A file \in DOMAIN two_week_tables :
        TrailingFigures(TwoWeekFrame(file), two_week_tables[file], round)

\* The 14-day table of the cases is made from a frame in which Australia has
\* more than 14 rows, a positive daily on a row before the 14 latest and a
\* daily clamped to 0 among them, and in which the figure of Austria has more
\* than 3 decimals.
C16_Witness ==
    /\ "two_week_tables" \in written
    /\ LET rows   == RowsOfCountry(cases, "Australia")
           recent == RecentRows(cases, "Australia")
       IN  /\ Cardinality(rows) > 14
           /\ \E i \in rows \ recent : cases[i].daily.n > 0
           /\ \E i, j \in recent :
                 /\ cases[i].daily = RInt(0)
                 /\ cases[j].date < cases[i].date
                 /\ cases[j].cases > cases[i].cases
           /\ \E i \in recent : cases[i].daily.n > 0
    /\ \E k \in 1..Len(two_week_tables["14_day_cases_per_100000"]) :
          LET r == two_week_tables["14_day_cases_per_100000"][k]
          IN  /\ r.country = "Austria"
              /\ r.fourteen_day # TrailingFigure(cases, "Austria")

\* The latest date of the derived deaths frame, Recovered's today.
Today == Max({deaths[i].date : i \in 1..Len(deaths)})

\* The cumulative deaths and cases of a country on a date, given that the
\* derived frame holds the row.
DeathsOn(c, d) == deaths[CHOOSE i \in RowsOf(deaths, c, d) : TRUE].deaths

CasesOn(c, d) == cases[CHOOSE i \in RowsOf(cases, c, d) : TRUE].cases

\* Whether every row of every case-fatality table written, of a country with
\* cases on case_start(start_date) and more cases 20 days before today, holds
\* the deaths from start_date to today over the cases from
\* case_start(start_date) to 20 days before today, as a percentage rounded to
\* 3 decimals.
CaseFatalityFrom(case_start(_)) ==
    \A k \in 1..Len(RecoveredTables) :
        LET t     == RecoveredTables[k]
            start == to_datetime(t.start_date)
        IN  t.file \in DOMAIN recovered_tables =>
                \A j \in 1..Len(recovered_tables[t.file]) :
                    LET r == recovered_tables[t.file][j]
                        c == r.country
                    IN  (/\ RowsOf(cases, c, case_start(start)) # {}
                         /\ RowsOf(cases, c, Today - 20) # {}
                         /\ CasesOn(c, Today - 20) > CasesOn(c, case_start(start)))
                        => r.case_fatality_rate =
                              round(Rat(100 * (DeathsOn(c, Today) - DeathsOn(c, start)),
                                        CasesOn(c, Today - 20)
                                            - CasesOn(c, case_start(start))))

\* The date 20 days before a date, and the date itself.
lagged(d) == d - 20

unlagged(d) == d

\* C17: the rate of a country in a case-fatality table is its deaths from
\* start_date to the latest date over its cases from 20 days before start_date
\* to 20 days before the latest date (shown as a percentage rounded to 3
\* decimals).
C17_CaseWindowShifted == CaseFatalityFrom(lagged)

\* What create_df computes: the deaths from start_date to the latest date
\* over the cases from start_date itself to 20 days before the latest date.
C17_CaseWindowFromStart == CaseFatalityFrom(unlagged)

\* The table from 2020-08-01 is written and holds a country whose derived
\* cases differ between 20 days before 2020-08-01 and 2020-08-01 and grow from
\* there to 20 days before the latest date, with deaths in the window.
C17_Witness ==
    /\ "recovered_autumn" \in DOMAIN recovered_tables
    /\ \E j \in 1..Len(recovered_tables["recovered_autumn"]) :
          LET c     == recovered_tables["recovered_autumn"][j].country
              start == to_datetime(Label(8, 1, 20))
          IN  /\ RowsOf(cases, c, start - 20) # {}
              /\ CasesOn(c, start - 20) < CasesOn(c, start)
              /\ CasesOn(c, start) < CasesOn(c, Today - 20)
              /\ DeathsOn(c, start) < DeathsOn(c, Today)

\* The names with a deaths row on exactly one of start_date and today, or
\* with a cases row on exactly one of start_date and 20 days before today.
LackingOneEndpoint(start) ==
    {c \in CountriesIn(deaths) :
        (RowsOf(deaths, c, start) = {}) # (RowsOf(deaths, c, Today) = {})}
    \cup {c \in CountriesIn(cases) :
        (RowsOf(cases, c, start) = {}) # (RowsOf(cases, c, Today - 20) = {})}

\* The names of the deaths frame without a cases row on either date.
LackingCases(start) ==
    {c \in CountriesIn(deaths) :
        RowsOf(cases, c, start) = {} /\ RowsOf(cases, c, Today - 20) = {}}

\* Whether the making of the case-fatality tables is over.
recovered_over == Past("tables.recovered") \/ "recovered_tables" \in written
                      \/ (pc = "tables.ValueError" /\ "two_week_tables" \in written)

\* C18: making the case-fatality tables raises nothing; a country without a
\* deaths row or a cases row at the start or at the end of the window is in
\* none of the tables made from start_date; and every other country's rate is
\* computed from its own start and end rows.
C18_MissingEndpointLeftOut ==
    recovered_over =>
        /\ pc # "tables.ValueError"
        /\ \A k \in 1..Len(RecoveredTables) :
              LET t == RecoveredTables[k]
                  start == to_datetime(t.start_date)
              IN  /\ t.file \in DOMAIN recovered_tables
                  /\ \A c \in LackingOneEndpoint(start) \cup LackingCases(start) :
                        c \notin CountriesIn(recovered_tables[t.file])
        /\ CaseFatalityFrom(unlagged)

\* What create_df does: when a country has a row at one end of a window
\* only, the assignment of date_id raises ValueError, the run ends there, and
\* the table of that start_date and those after it are not written; a country
\* of the deaths frame without any cases row of the window, or a country
\* without any deaths row, is left out of the tables written, and the rates of
\* the others are computed from their own rows.
C18_RaisesOnMissingEndpoint ==
    recovered_over =>
        /\ (pc = "tables.ValueError") <=>
               (\E k \in 1..Len(RecoveredTables) :
                   LackingOneEndpoint(to_datetime(RecoveredTables[k].start_date)) # {})
        /\ \A k \in 1..Len(RecoveredTables) :
              LET t == RecoveredTables[k]
                  start == to_datetime(t.start_date)
              IN  IF \E j \in 1..k :
                         LackingOneEndpoint(
                             to_datetime(RecoveredTables[j].start_date)) # {}
                  THEN t.file \notin DOMAIN recovered_tables
                  ELSE /\ t.file \in DOMAIN recovered_tables
                       /\ \A c \in LackingCases(start) :
                             c \notin CountriesIn(recovered_tables[t.file])
                       /\ CountriesIn(recovered_tables[t.file]) \subseteq
                              CountriesIn(deaths)
        /\ CaseFatalityFrom(unlagged)

\* The run has ended in ValueError while making the case-fatality tables:
\* the derived deaths frame holds no row of a country on 2020-02-01 although
\* it holds one on the latest date, and no case-fatality table is written.
C18_Witness ==
    /\ pc = "tables.ValueError"
    /\ "two_week_tables" \in written
    /\ \E c \in CountriesIn(deaths) :
          /\ RowsOf(deaths, c, to_datetime(Label(2, 1, 20))) = {}
          /\ RowsOf(deaths, c, Today) # {}
    /\ DOMAIN recovered_tables = {}

\* The four case-fatality tables are written from a deaths frame with a
\* country the cases frame lacks: it is in none of them, and another country
\* is.
C18_LeftOutWitness ==
    /\ pc = "done"
    /\ \E c \in CountriesIn(deaths) \ CountriesIn(cases) :
          \A f \in DOMAIN recovered_tables :
              /\ c \notin CountriesIn(recovered_tables[f])
              /\ recovered_tables[f] # <<>>

\* The i-th character of a string.
CharAt(s, i) == SubSeq(s, i, i)

\* The digit a character stands for; 10 when it is no digit.
DigitOf(ch) ==
    IF \E k \in 0..9 : ToString(k) = ch
    THEN CHOOSE k \in 0..9 : ToString(k) = ch ELSE 10

\* Whether w is a natural number written with a comma before every group of
\* three digits and with no other character.
Grouped(w) ==
    /\ Len(w) > 0 /\ Len(w) % 4 # 0
    /\ \A i \in 1..Len(w) :
          IF (Len(w) - i) % 4 = 3 THEN CharAt(w, i) = ","
          ELSE DigitOf(CharAt(w, i)) < 10
    /\ Len(w) > 1 => CharAt(w, 1) # "0"

\* The number a string of digits and commas writes.
RECURSIVE NumberOf(_)
NumberOf(w) ==
    IF w = "" THEN 0
    ELSE LET ch == CharAt(w, Len(w))
             up == NumberOf(SubSeq(w, 1, Len(w) - 1))
         IN  IF ch = "," THEN up ELSE 10 * up + DigitOf(ch)

\* Whether h hundredths is x rounded to 2 decimals.
Nearest(x, h) ==
    LET twice == 2 * (100 * x.n - h * x.d)
    IN  /\ -x.d <= twice /\ twice <= x.d
        /\ (twice = x.d \/ twice = -x.d) => h % 2 = 0

\* Whether s is the display string of the float cell x >= 0: x rounded to 2
\* decimals, the whole part with thousands separators, followed by a point
\* and the two decimals unless they are 00, and then by nothing at all.
ShownAs(x, s) ==
    LET cut == Len(s) < 3 \/ CharAt(s, Len(s) - 2) # "."
    IN  IF cut
        THEN /\ Grouped(s)
             /\ Nearest(x, 100 * NumberOf(s))
        ELSE LET w  == SubSeq(s, 1, Len(s) - 3)
                 d1 == DigitOf(CharAt(s, Len(s) - 1))
                 d2 == DigitOf(CharAt(s, Len(s)))
             IN  /\ Grouped(w)
                 /\ d1 < 10 /\ d2 < 10
                 /\ 10 * d1 + d2 # 0
                 /\ Nearest(x, 100 * NumberOf(w) + 10 * d1 + d2)

\* The six figures of a derived row of the cases frame that have a display
\* string in the column named with _str at the end.
ShownColumns ==
    {"cases", "cases_per_million", "daily", "daily_million", "seven_day_average",
     "seven_day_average_per_million"}

\* C19: the display string of a figure is the figure rounded to 2 decimals
\* with thousands separators, the decimals cut off exactly when they are 00:
\* 1234.5 gives "1,234.50", 1234.00 gives "1,234", 0.5 gives "0.50"; and so
\* for each of the six display strings of every row of the derived cases and
\* deaths frames.
C19_DisplayString ==
    /\ str_2f(Rat(12345, 10)) = "1,234.50"
    /\ str_2f(RInt(1234)) = "1,234"
    /\ str_2f(Rat(1, 2)) = "0.50"
    /\ \A df \in {cases, as_cases(deaths)} :
          \A i \in 1..Len(df), col \in ShownColumns :
              ShownAs(cell(df[i], col), df[i][col \o "_str"])

\* The derived cases frame shows a figure of 1,000 or more with decimals, a
\* figure of 1,000 or more without, a figure below 1 whose second decimal is
\* 0, and a whole figure below 1,000.
C19_Witness ==
    /\ \E i \in 1..Len(cases) :
          /\ cases[i].cases_per_million.d > 1
          /\ lt(RInt(1000), cases[i].cases_per_million)
          /\ Len(cases[i].cases_per_million_str) = 8
    /\ \E i \in 1..Len(cases) :
          /\ cases[i].cases_per_million = RInt(1000)
          /\ cases[i].cases_per_million_str = "1,000"
    /\ \E i \in 1..Len(cases) :
          /\ cases[i].seven_day_average = Rat(1, 2)
          /\ cases[i].seven_day_average_str = "0.50"
    /\ \E i \in 1..Len(cases) :
          /\ cases[i].cases > 0
          /\ cases[i].cases_str = ToString(cases[i].cases)

\* Whether a file holds a date column with a label that is no date.
Malformed(wide) ==
    \E k \in 1..Len(wide.columns) : wide.columns[k] \in MalformedLabels

\* Whether the run has written nothing: no plot and no table.
nothing_written ==
    /\ written = {}
    /\ summary_tables = <<>> /\ two_week_tables = <<>> /\ recovered_tables = <<>>

\* C20: when a date column of the cases file, of the deaths file or of the
\* US file is no date under month/day/2-digit year, prepare_data_1 of that
\* file raises: the run never gets past it, it ends there, no frame is made
\* from the file (no row of it is kept under another date or without the
\* column), get_data returns nothing and no output is written.
C20_MalformedDateFatal ==
    /\ Malformed(url_cases) =>
          /\ ~Past("cases.prepare_data_1")
          /\ cases_1 = <<>> /\ cases_m = <<>> /\ cases = <<>>
          /\ continent_cases = <<>>
          /\ data = {}
          /\ nothing_written
    /\ Malformed(url_deaths) =>
          /\ ~Past("deaths.prepare_data_1")
          /\ deaths_1 = <<>> /\ deaths_m = <<>> /\ deaths = <<>>
          /\ continent_deaths = <<>>
          /\ "deaths" \notin data
          /\ nothing_written
    /\ Malformed(url_usa) =>
          /\ ~Past("usa.prepare_data_1")
          /\ usa_1 = <<>>
          /\ "usa" \notin data
          /\ nothing_written
    /\ pc \in {"cases.ValueError", "deaths.ValueError", "usa.ValueError"} =>
          ~ENABLED Next

\* The run has ended in prepare_data_1 of the deaths file, whose last date
\* column alone is no date, after the cases file was prepared.
C20_Witness ==
    /\ pc = "deaths.ValueError"
    /\ url_deaths.columns[Len(url_deaths.columns)] \in MalformedLabels
    /\ \A k \in 1..(Len(url_deaths.columns) - 1) :
          url_deaths.columns[k] \notin MalformedLabels
    /\ cases # <<>>

\* A raw file without the rows of the names the resolver does not match.
WithoutUnmatched(wide) ==
    [columns |-> wide.columns,
     rows |-> SelectSeq(wide.rows, LAMBDA row : ~Unmatched(row.country))]

\* The frame CasesData().return_df() gives for a file.
return_df_of(wide) == prepare_data_2(merge_metrics(prepare_data_1(wide)))

\* C21: on files that hold unmatched names, preparing the data raises no
\* error, and the derived cases frame and the derived deaths frame are the
\* frames the same files give without the rows of the unmatched names.
C21_UnmatchedNeverAborts ==
    /\ pc \notin {"cases.ValueError", "cases.TypeError", "deaths.ValueError",
                  "deaths.TypeError"}
    /\ cases_returned => cases = return_df_of(WithoutUnmatched(url_cases))
    /\ "deaths" \in data =>
          deaths = as_deaths(return_df_of(WithoutUnmatched(url_deaths)))

\* Both frames are derived from files that hold two unmatched names with
\* positive counts, and hold rows of both matched names with a positive
\* daily.
C21_Witness ==
    /\ "continent_deaths" \in data
    /\ Cardinality({c \in NamesOf(url_cases) : Unmatched(c)}) = 2
    /\ \A c \in NamesOf(url_cases) :
          Unmatched(c) => TotalOf(url_cases, c, Max(DatesOf(url_cases))) > 0
    /\ \A c \in {"Australia", "Belgium"} :
          /\ \E i \in RowsOfCountry(cases, c) : cases[i].daily.n > 0
          /\ \E i \in RowsOfCountry(deaths, c) : deaths[i].daily.n > 0

\* The keys of the dict get_data returns.
AllSeries ==
    {"cases", "continent_cases", "deaths", "continent_deaths", "excess_deaths",
     "vaccine", "usa"}

\* Whether the run has reached the first plot.
presentation_started == Position(StepAt) >= Position(Plots[1])

\* C22: once the run has reached the first plot, or has written anything,
\* get_data holds all seven prepared series; and a continent frame is held
\* only together with the derived frame of its countries, of which it is
\* the breakdown.
C22_PreparedBeforePresentation ==
    /\ (presentation_started \/ written # {}) => data = AllSeries
    /\ (summary_tables # <<>> \/ two_week_tables # <<>> \/ recovered_tables # <<>>)
          => data = AllSeries
    /\ "continent_cases" \in data =>
          /\ "cases" \in data
          /\ continent_cases = continents_prepare_data(cases)
    /\ "continent_deaths" \in data =>
          /\ "deaths" \in data
          /\ continent_deaths = as_deaths(continents_prepare_data(as_cases(deaths)))

\* The run is over with every plot and every group of tables written.
C22_Witness ==
    /\ pc = "done"
    /\ written = {Plots[k] : k \in 1..Len(Plots)}
                    \cup {"summary_tables", "two_week_tables", "recovered_tables"}
    /\ continent_cases # <<>> /\ continent_deaths # <<>> /\ usa # <<>>

\* The state a download that raised leaves the run in.
URLError(series) == series \o ".URLError"

\* The series whose download has been called.
Fetched == {fetched[k] : k \in 1..Len(fetched)}

\* C23: when the download of a series that cannot be read has been called,
\* the run is over with that download's error: no step follows, that download
\* is the last one called, no download has been called twice, and no plot
\* and no table is written.
C23_FetchFailureFatal ==
    /\ \A k, l \in 1..Len(fetched) : fetched[k] = fetched[l] => k = l
    /\ \A series \in unreachable \cap Fetched :
          /\ pc = URLError(series)
          /\ ~ENABLED Next
          /\ fetched[Len(fetched)] = series
          /\ series \notin data
          /\ nothing_written

\* A run in which two files are out of reach is over with the error of the
\* first of them, after the series before it were prepared.
C23_Witness ==
    /\ unreachable = {"vaccine", "usa"}
    /\ pc = URLError("vaccine")
    /\ fetched = <<"cases", "deaths", "excess_deaths", "vaccine">>
    /\ data = AllSeries \ {"vaccine", "usa"}

\* C24: from the moment get_data holds the derived cases frame, no step
\* changes it, and likewise the derived deaths frame: the continent
\* breakdowns, the plots, the top-10 tables, the 14-day tables and the
\* case-fatality tables all leave the frame they read as prepare_data_2
\* returned it.
C24_DerivedNeverChanged ==
    /\ []("cases" \in data => cases = prepare_data_2(cases_m))
    /\ []("deaths" \in data => deaths = as_deaths(prepare_data_2(as_cases(deaths_m))))
    /\ [][/\ "cases" \in data => cases' = cases
          /\ "deaths" \in data => deaths' = deaths]_vars

\* The run is over, every consumer has read the derived frames, and these
\* still hold the rows up to 2020-03-01 that the breakdowns leave out.
C24_Witness ==
    /\ pc = "done"
    /\ continent_cases # <<>> /\ continent_deaths # <<>>
    /\ DOMAIN summary_tables # {} /\ DOMAIN two_week_tables # {}
    /\ DOMAIN recovered_tables # {}
    /\ \E i \in 1..Len(cases) : cases[i].date <= to_datetime(min_date)
    /\ \E i \in 1..Len(deaths) : deaths[i].date <= to_datetime(min_date)

\* The raw rows of a country, and the cell of a raw row on a date.
RegionsOf(c) == {r \in 1..Len(url_cases.rows) : url_cases.rows[r].country = c}

CellOn(r, d) ==
    url_cases.rows[r].vals[CHOOSE k \in 1..Len(url_cases.columns) :
                               to_datetime(url_cases.columns[k]) = d]

\* The date of the raw file before d.
DateBefore(d) == Max({e \in RawDates : e < d})

\* The increases of the raw rows of a country on a date, each not below 0,
\* summed.
ClampedPerRegion(c, d) ==
    SumOver([r \in RegionsOf(c) |->
                IF CellOn(r, d) < CellOn(r, DateBefore(d)) THEN 0
                ELSE CellOn(r, d) - CellOn(r, DateBefore(d))],
            RegionsOf(c))

\* C25: the daily of a derived row of a country the file gives in several
\* rows is max(0, T[d] - T[d_prev]), with T the sum of the cells of all these
\* rows on a date; it is positive whenever that sum grew, whether or not one
\* of the rows went down.
C25_DailyOnMergedTotal ==
    \A i \in 1..Len(cases) :
        LET c == cases[i].country
            d == cases[i].date
            T(e) == SumOver([r \in RegionsOf(c) |-> CellOn(r, e)], RegionsOf(c))
        IN  Cardinality(RegionsOf(c)) > 1 =>
                /\ cases[i].cases = T(d)
                /\ cases[i].daily =
                       RInt(IF T(d) < T(DateBefore(d)) THEN 0 ELSE T(d) - T(DateBefore(d)))
                /\ T(d) > T(DateBefore(d)) => cases[i].daily.n > 0

\* A derived row of a country of two raw rows, on a date where one of them
\* went down and the other grew by more: its daily is positive and below
\* the sum of the increases taken row by row.
C25_Witness ==
    /\ cases_returned
    /\ \E i \in 1..Len(cases) :
          LET c == cases[i].country
              d == cases[i].date
          IN  /\ Cardinality(RegionsOf(c)) = 2
              /\ \E r \in RegionsOf(c) : CellOn(r, d) < CellOn(r, DateBefore(d))
              /\ cases[i].daily.n > 0
              /\ cases[i].daily.n < ClampedPerRegion(c, d)

\* The lists of names handed to country_info for a series.
AskedFor(series) == SelectSeq(asked, LAMBDA q : q.series = series)

\* Whether every row of an enriched or derived frame carries the iso3, the
\* population and the continent that the resolver gives for the row's own
\* name.
OwnMetadata(df) ==
    \A i \in 1..Len(df) :
        LET m == replace_empty(reference(df[i].country))
        IN  /\ df[i].iso3 = m.iso3
            /\ df[i].population = m.population
            /\ df[i].continent = m.continent

\* Whether merge_metrics, on the frame of prepare_data_1 it read, asked the
\* resolver once, for each name of the frame once.
AskedOnce(series, df) ==
    /\ Len(AskedFor(series)) = 1
    /\ LET names == AskedFor(series)[1].names
       IN  /\ \A k, l \in 1..Len(names) : names[k] = names[l] => k = l
           /\ {names[k] : k \in 1..Len(names)} = CountriesIn(df)

NeverDecreases(c) ==
    \A d \in RawDates \ {Min(RawDates)} : RawTotal(c, DateBefore(d)) <= RawTotal(c, d)

\* The sum of the daily of the derived rows of a country.
SumOfDaily(c) ==
    SumOver([i \in RowsOfCountry(cases, c) |-> cases[i].daily.n],
            RowsOfCountry(cases, c))

\* C27: for every country of the derived frame, the sum of the daily of its
\* rows is at least the cumulative value on the last date minus the one on
\* the country's first date (the date whose row is dropped), and equal to it
\* exactly when the series never decreases; and the daily of a row is taken
\* against the value of the date before, revised or not: it is the increase
\* over that value even where the value stays below an earlier maximum.
C27_SumOfDailyBoundsGrowth ==
    \A c \in CountriesIn(cases) :
        LET growth == RawTotal(c, Max(RawDates)) - RawTotal(c, Min(RawDates))
        IN  /\ \A i \in RowsOfCountry(cases, c) : cases[i].daily.d = 1
            /\ SumOfDaily(c) >= growth
            /\ SumOfDaily(c) = growth <=> NeverDecreases(c)
            /\ \A i \in RowsOfCountry(cases, c) :
                  LET d == cases[i].date
                  IN  RawTotal(c, d) >= RawTotal(c, DateBefore(d)) =>
                          cases[i].daily.n = RawTotal(c, d) - RawTotal(c, DateBefore(d))

\* A country whose series is revised down on a date and is higher on the
\* next: the row of the next date has as its daily the whole increase over the
\* revised value, and the sum of the daily exceeds the growth; another
\* country never decreases.
C27_Witness ==
    /\ cases_returned
    /\ \E c \in CountriesIn(cases) :
          /\ ~NeverDecreases(c)
          /\ SumOfDaily(c) > RawTotal(c, Max(RawDates)) - RawTotal(c, Min(RawDates))
          /\ \E i \in RowsOfCountry(cases, c) :
                LET d == cases[i].date
                IN  /\ \E e \in RawDates :
                          e < DateBefore(d) /\ RawTotal(c, e) > RawTotal(c, DateBefore(d))
                    /\ cases[i].daily.n = RawTotal(c, d) - RawTotal(c, DateBefore(d))
                    /\ cases[i].daily.n > 0
    /\ \E c \in CountriesIn(cases) : NeverDecreases(c) /\ SumOfDaily(c) > 0

\* The rows of the case-fatality tables written, each with the start date of
\* its table.
ListedRates ==
    UNION {{[start |-> to_datetime(RecoveredTables[k].start_date),
             row |-> recovered_tables[RecoveredTables[k].file][j]] :
               j \in 1..Len(recovered_tables[RecoveredTables[k].file])} :
           k \in {l \in 1..Len(RecoveredTables) :
                     RecoveredTables[l].file \in DOMAIN recovered_tables}}

\* The denominator of a listed rate: the cases of the row's country 20 days
\* before the latest date minus its cases on the start date.
CaseDenominator(x) ==
    CasesOn(x.row.country, Today - lag_days) - CasesOn(x.row.country, x.start)

\* C28: every row of a case-fatality table has a case denominator above 0
\* and a rate that is a finite number.
C28_PositiveDenominator ==
    \A x \in ListedRates :
        /\ CaseDenominator(x) > 0
        /\ x.row.case_fatality_rate.d > 0

\* What create_df lists: a country whose cases did not change over the window
\* has a row all the same, with the rate its deaths over 0 give: inf when it
\* had deaths in the window, NaN when it had none.
C28_ZeroDenominatorListed ==
    \A x \in ListedRates :
        CaseDenominator(x) = 0 =>
            x.row.case_fatality_rate =
                truediv(RInt(DeathsOn(x.row.country, Today)
                                 - DeathsOn(x.row.country, x.start)), RInt(0))

\* The four tables are written, and one lists a country without new cases
\* over the window with the rate inf, another with the rate NaN.
C28_Witness ==
    /\ pc = "done"
    /\ \E x \in ListedRates :
          CaseDenominator(x) = 0 /\ x.row.case_fatality_rate = inf
    /\ \E x \in ListedRates :
          CaseDenominator(x) > 0 /\ x.row.case_fatality_rate.d > 0

\* A table lists a country without new cases and without deaths over the
\* window, with the rate NaN.
C28_NaNWitness ==
    \E x \in ListedRates :
        CaseDenominator(x) = 0 /\ isna(x.row.case_fatality_rate)

\* The number of names of LastTwoWeeks.countries.
watch_list_size == 19

\* Whether a 14-day table made from a derived frame holds each name of the
\* watch list in exactly one row, the rows by figure, largest first, ranked
\* from 1 on, and the figure 0 for a name without rows in the frame.
WatchListTable(table, df) ==
    /\ Len(table) = watch_list_size
    /\ \A k \in 1..Len(countries) :
          Cardinality({i \in 1..Len(table) : table[i].country = countries[k]}) = 1
    /\ \A i \in 1..Len(table) :
          /\ table[i].rank = i
          /\ table[i].fourteen_day.d > 0
          /\ \A j \in (i + 1)..Len(table) :
                ~lt(table[i].fourteen_day, table[j].fourteen_day)
          /\ RowsOfCountry(df, table[i].country) = {} =>
                table[i].fourteen_day = RInt(0)

\* C29: each 14-day table written holds exactly one row for each of the 19
\* names of the watch list, by non-increasing figure and ranked 1 to 19,
\* and a name without rows in the derived frame has the figure 0.
C29_WatchListComplete ==
    /\ Len(countries) = watch_list_size
    /\ "14_day_cases_per_100000" \in DOMAIN two_week_tables =>
          WatchListTable(two_week_tables["14_day_cases_per_100000"], cases)
    /\ "14_day_deaths_per_100000" \in DOMAIN two_week_tables =>
          WatchListTable(two_week_tables["14_day_deaths_per_100000"], deaths)

\* The 14-day tables are written from frames that hold rows of some names of
\* the watch list and none of the others, with two different positive
\* figures in the cases table.
C29_Witness ==
    /\ "two_week_tables" \in written
    /\ \E k \in 1..Len(countries) : RowsOfCountry(cases, countries[k]) = {}
    /\ \E k \in 1..Len(countries) : RowsOfCountry(deaths, countries[k]) # {}
    /\ LET t == two_week_tables["14_day_cases_per_100000"]
       IN  /\ t[1].fourteen_day.n > 0
           /\ t[2].fourteen_day.n > 0
           /\ t[1].fourteen_day # t[2].fourteen_day
           /\ t[Len(t)].fourteen_day = RInt(0)

\* The states the file of the states lists.
ListedStates == {us_states[k].state : k \in 1..Len(us_states)}

\* The rows of the US frame on a date.
StateRowsOn(d) == {i \in 1..Len(usa) : usa[i].date = d}

\* Whether a column of ranks is the dense descending rank of a column of
\* values within each date of the US frame.
DenseDescending(value, rank) ==
    \A d \in DatesOf(url_usa) :
        LET R == StateRowsOn(d)
            k == Cardinality({value[i] : i \in R})
        IN  /\ \A i \in R : (\A j \in R : ~lt(value[i], value[j])) => rank[i] = 1
            /\ \A i, j \in R : rank[i] = rank[j] <=> value[i] = value[j]
            /\ \A i, j \in R : lt(value[j], value[i]) => rank[i] < rank[j]
            /\ {rank[i] : i \in R} = 1..k

\* C30: in the US frame, on every date, rank_total is the dense descending
\* rank of deaths and rank_per_100k that of deaths_per_100k over the states
\* of that date: rank 1 for the largest value, equal ranks exactly for equal
\* values, a smaller rank for a larger value, and the ranks 1 to k without a
\* gap; a state the file of the states does not list has no row, and every
\* state it lists has one row on every date.
C30_DenseRanks ==
    "usa" \in data =>
        /\ \A i \in 1..Len(usa) :
              /\ usa[i].state \in ListedStates
              /\ usa[i].deaths = StateTotal(usa[i].state, usa[i].date)
              /\ \E m \in 1..Len(us_states) :
                    /\ us_states[m].state = usa[i].state
                    /\ usa[i].deaths_per_100k =
                          Rat(usa[i].deaths * 100000, us_states[m].population.n)
        /\ \A d \in DatesOf(url_usa) :
              \A st \in ListedStates \cap
                        {url_usa.rows[r].Province_State : r \in 1..Len(url_usa.rows)} :
                  Cardinality({i \in StateRowsOn(d) : usa[i].state = st}) = 1
        /\ DenseDescending([i \in 1..Len(usa) |-> RInt(usa[i].deaths)],
                           [i \in 1..Len(usa) |-> usa[i].rank_total])
        /\ DenseDescending([i \in 1..Len(usa) |-> usa[i].deaths_per_100k],
                           [i \in 1..Len(usa) |-> usa[i].rank_per_100k])

\* The US frame is made from a file with a state the file of the states does
\* not list, and on one date two states share rank 1 of the totals ahead of a
\* state of rank 2, while the order of the rates is another: a state ranks
\* ahead of another by total and behind it by rate.
C30_Witness ==
    /\ "usa" \in data
    /\ \E r \in 1..Len(url_usa.rows) :
          url_usa.rows[r].Province_State \notin ListedStates
    /\ \E i, j, l \in 1..Len(usa) :
          /\ usa[i].date = usa[j].date /\ usa[j].date = usa[l].date
          /\ i # j
          /\ usa[i].rank_total = 1 /\ usa[j].rank_total = 1
          /\ usa[l].rank_total = 2
    /\ \E i, j \in 1..Len(usa) :
          /\ usa[i].date = usa[j].date
          /\ usa[i].rank_total < usa[j].rank_total
          /\ usa[i].rank_per_100k > usa[j].rank_per_100k

====
